---- MODULE Spec2Model ----
(***************************************************************************)
(* HCG-Analysis-Tool: the line detector and the colour aggregator of       *)
(* utils/imageProcessing.js (redness-weighted vertical line following),    *)
(* driven by processImage.                                                 *)
(*                                                                         *)
(* Numbers.  The JavaScript works in IEEE doubles.  The scores of the      *)
(* detector, their sums, means and thresholds are kept as the doubles the  *)
(* code computes, each operation rounded to the nearest double (see        *)
(* Doubles below).  The channel means of calculateAverageRGB and its       *)
(* grayscale are doubles in the same way.                                  *)
(***************************************************************************)
EXTENDS Integers, Sequences, FiniteSets, Bags, TLC

VARIABLES
    pc,         \* where processImage stands: "pending", "resolved", "rejected"
                \* ("detected": the detector has returned; "called" and
                \* "returned": floodFill called alone)
    imageData,  \* the raster getImageData returned: [width, height, data]
    lineData,   \* what detectLineAndExtractPixels returned: [pixels, coordinates]
    avgRGB,     \* what calculateAverageRGB returned
    revision,   \* the revision of the detector in use: "maxWidth" (the current
                \* one) or "lineWidth" (the earlier one)
    original,   \* the uploaded image ImageCanvas holds (imageRef.current)
    roi,        \* the region saved for it: [x, y, width, height]
    images,     \* App: the images state, [id, dpo, croppedImageUrl, rgb] each
    processing, \* App: the processing state
    results,    \* App: the results state, what ResultsTable is given
    sortedImages,     \* handleStart: the sorted copy, an array of the objects
    processedResults, \* handleStart: the entries pushed so far
    loopIndex,  \* handleStart: the loop index i
    late,       \* the calls of App's handlers since a first run of handleStart
                \* began
    canvas,     \* ImageCanvas: [width, height] of the canvas
    overlay,    \* ImageCanvas: [width, height] of the overlay canvas rendered
    paintedPixels,    \* ImageCanvas: the painted mask, a set of <<x, y>>
    history,    \* ImageCanvas: the masks undo goes back to
    isDrawing,  \* ImageCanvas: the mouse is down on the overlay
    mode,       \* ImageCanvas: "paint" or "erase"
    brushSize,  \* ImageCanvas: the value of the brush slider
    dpo,        \* ImageCanvas: the text of the days field
    timers,     \* ImageCanvas: the drawImage calls on a timer, oldest first
    loads,      \* ImageCanvas: the images of drawImage calls that are loading
    blobs,      \* ImageCanvas: the toBlob calls whose callback is to come
    events,     \* ImageCanvas: the events of the user handled so far
    selected,   \* App: selectedImageIndex, counted from 1 (0: no image)
    scanAt,     \* Strategy A: the place of the loops over y and x, as the
                \* index y * width + x + 1 (0 outside of a scan)
    stackNow,   \* floodFill: its stack of <<x, y>>
    visitedNow, \* Strategy A: the <<x, y>> with visited[y][x] true
    regionNow,  \* Strategy A: the region being filled
    largestNow, \* Strategy A: largestRegion, the first region of the largest size
    readAt,     \* the <<x, y>> at which the last step read the grayscale and
                \* visited grids (<< >>: it read neither)
    grayscaleData,  \* Strategy A: grayscaleData[y][x] of the scan under way
    thresholdNow    \* Strategy A: threshold of the scan or the call under way

appVars == <<images, selected, processing, results, sortedImages, processedResults, loopIndex,
            late>>
canvasVars == <<canvas, overlay, paintedPixels, history, isDrawing, mode, brushSize, dpo,
               timers, loads, blobs, events>>
fillVars == <<scanAt, stackNow, visitedNow, regionNow, largestNow, readAt, grayscaleData,
             thresholdNow>>
vars == <<pc, imageData, lineData, avgRGB, revision, original, roi, appVars, canvasVars,
          fillVars>>

(***************************************************************************)
(* Bounds of the model.                                                    *)
(***************************************************************************)
MaxW == 13      \* rasters are 0..MaxW pixels wide
MaxH == 12      \* and 0..MaxH pixels high
MaxInk == 2     \* at most this many interior pixels differ from the paper
RectWide == 28  \* the wide raster of the rectangle runs: 18 interior columns
RectTall == 21  \* the tall raster of the rectangle runs: 11 interior rows
CropMaxW == 13  \* uploaded images of the region runs are 12..CropMaxW wide
MaxImages == 3  \* at most this many images are uploaded for a batch
MaxDpo == 1     \* the days entered for an image are -1..MaxDpo
MaxLate == 1    \* at most this many calls of App's handlers are made once a
                \* first run of handleStart has begun
MaxEvents == 5  \* ImageCanvas and the thumbnails handle at most this many
                \* events of the user in a session

(***************************************************************************)
(* Program constants.                                                      *)
(***************************************************************************)
\* A margin one pixel too narrow.
edgeMarginNarrow == 5 - 1
edgeMargin == 5
windowSize == 5
smoothWindow == 3
\* A search one column too far.
maxWidthLonger == 8 + 1
maxWidth == 8
null == -1      \* JavaScript null in lineCenterX (columns are >= 0)

\* Op at the value of v, which is computed once.
Once(v, Op(_)) == CHOOSE r \in {Op(x) : x \in {v}} : TRUE

Min(a, b) == IF a < b THEN a ELSE b
Max(a, b) == IF a > b THEN a ELSE b
Abs(a) == IF a < 0 THEN -a ELSE a

RECURSIVE GCD(_, _)
GCD(a, b) == IF b = 0 THEN a ELSE GCD(b, a % b)

\* floor(log2(a / b)) for a, b > 0.
RECURSIVE FloorLog2(_, _)
FloorLog2(a, b) ==
    IF a >= 2 * b THEN FloorLog2(a, 2 * b) + 1
    ELSE IF a < b THEN FloorLog2(2 * a, b) - 1
    ELSE 0

Pow2(k) == 2 ^ k

\* a * 2^k mod b for b < 2^22: the power taken in two parts where b * b is
\* an integer of 32 bits, and eight bits at a time where it is not.
RECURSIVE RemPow(_, _, _)
RemPow(a, b, k) ==
    IF b < 46341
    THEN IF k <= 30
         THEN ((a % b) * (Pow2(k) % b)) % b
         ELSE ((((a % b) * (Pow2(30) % b)) % b) * (Pow2(k - 30) % b)) % b
    ELSE IF k <= 8
         THEN ((a % b) * Pow2(k)) % b
         ELSE RemPow(((a % b) * Pow2(8)) % b, b, k - 8)

(***************************************************************************)
(* Doubles.  A double v is the triple <<n, d, e>> with                     *)
(*     v = (n + e / 2^56) / d,                                             *)
(* n / d in lowest terms: n / d is the value the arithmetic would give     *)
(* without rounding and e what the roundings have added to it (the doubles *)
(* met here are 0 or at least 1/16, so that e is an integer).  An          *)
(* operation takes the exact result of its operands and rounds it to the   *)
(* nearest double, to the even one of two equally near.  The doubles with  *)
(* 53 bits in the binade 2^E of the result are those with e = -rho modulo G *)
(* for G = d 2^(E + 4) and rho = 2^(E + 4) (n 2^(52 - E) mod d).           *)
(***************************************************************************)
\* The exponent E of the binade the value (N + (X + h) / 2^56) / D lies in,
\* h of the sign t, for E0 = floor(log2(N / D)): a value just below the
\* power of two N / D lies in the binade below.
flExponent(N, D, X, t, E0) ==
    IF /\ IF E0 >= 0 THEN N = D * Pow2(E0) ELSE N * Pow2(0 - E0) = D
       /\ (X < 0 \/ (X = 0 /\ t < 0))
    THEN E0 - 1
    ELSE E0

\* The double for the grid step G: j steps and the rest r lie below the
\* value; it is taken up when the rest is more than half a step, or half a
\* step and the 53-bit integer of the double below is odd (`high' is its
\* bit from N, j gives the others).
flPick(N, D, t, G, rho, j, r, high) ==
    LET odd == high # (j % 2 = 1)
        up == 2 * r > G \/ (2 * r = G /\ (t > 0 \/ (t = 0 /\ odd)))
        e == G * (IF up THEN j + 1 ELSE j) - rho
        g == GCD(N, D)
    IN  <<N \div g, D \div g, e \div g>>

flGrid(N, D, X, t, G, rho, high) ==
    flPick(N, D, t, G, rho, (X + rho) \div G, (X + rho) % G, high)

\* The double in the binade 2^E: G = D 2^(E + 4), rho = 2^(E + 4) (N 2^(52 - E) mod D).
flBinade(N, D, X, t, E) ==
    flGrid(N, D, X, t, D * Pow2(E + 4), Pow2(E + 4) * (RemPow(N, 2 * D, 52 - E) % D),
           RemPow(N, 2 * D, 52 - E) >= D)

\* The double nearest to (N + (X + h) / 2^56) / D for N >= 0 and D > 0,
\* where h has the sign t and is less than 1 in size.
flOf(N, D, X, t) ==
    IF X = 0 /\ t = 0 /\ (4 * N) % D = 0       \* a multiple of 1/4 is a double
    THEN IF N % D = 0 THEN <<N \div D, 1, 0>>
         ELSE <<N \div GCD(N, D), D \div GCD(N, D), 0>>
    ELSE flBinade(N, D, X, t, flExponent(N, D, X, t, FloorLog2(N, D)))

\* v on the side of 0 where N is.
flSigned(N, v) == IF N < 0 THEN <<0 - v[1], v[2], 0 - v[3]>> ELSE v

\* The same for every N: rounding to the nearest double is the same on both
\* sides of 0.
fl(N, D, X, t) ==
    flSigned(N, flOf(Abs(N), D, IF N < 0 THEN 0 - X ELSE X, IF N < 0 THEN 0 - t ELSE t))

Sign(a) == IF a > 0 THEN 1 ELSE IF a < 0 THEN -1 ELSE 0

\* The double of an integer and of a decimal literal n / d.
Num(k) == <<k, 1, 0>>
Dec(n, d) == fl(n, d, 0, 0)

\* a + b, a - b, a * b and a / c for a count c, as the code's operators give them.
flAdd(a, b) ==
    IF a = Num(0) THEN b
    ELSE IF b = Num(0) THEN a
    ELSE LET l == IF a[2] = b[2] THEN a[2] ELSE (a[2] \div GCD(a[2], b[2])) * b[2]
         IN  fl(a[1] * (l \div a[2]) + b[1] * (l \div b[2]), l,
                a[3] * (l \div a[2]) + b[3] * (l \div b[2]), 0)

flSub(a, b) == flAdd(a, <<0 - b[1], b[2], 0 - b[3]>>)

flTimes(a, b) ==
    fl(a[1] * b[1], a[2] * b[2], a[1] * b[3] + b[1] * a[3], Sign(a[3]) * Sign(b[3]))

flDiv(a, c) == fl(a[1], a[2] * c, a[3], 0)

\* a < b: the values without rounding decide, and what the roundings added
\* where those are equal.
flLess(a, b) ==
    LET g == IF a[2] = b[2] THEN a[2] ELSE GCD(a[2], b[2])
        ka == b[2] \div g
        kb == a[2] \div g
    IN  \/ a[1] * ka < b[1] * kb
        \/ a[1] * ka = b[1] * kb /\ a[3] * ka < b[3] * kb

\* Math.max(a, b)
flMax(a, b) == IF flLess(a, b) THEN b ELSE a

\* The literals 0.3, 0.25 and 0.5.
Literal03 == Dec(3, 10)
Literal025 == Dec(25, 100)
Literal05 == Dec(5, 10)

\* The weights of the luminance formula.
Literal0299 == Dec(299, 1000)
Literal0587 == Dec(587, 1000)
Literal0114 == Dec(114, 1000)

(***************************************************************************)
(* Pixels: { r, g, b, a } as pixelData holds them.                         *)
(***************************************************************************)
Px(r, g, b) == [r |-> r, g |-> g, b |-> b, a |-> 255]

White  == Px(255, 255, 255)   \* paper: not dark, scores 0
Red    == Px(255, 0, 0)       \* red dominant, score 297.5
Pink   == Px(240, 201, 201)   \* faint red dominant, score 60.5
Violet == Px(200, 100, 240)   \* pinkish (r > g) but r <= b, score 90
Grey   == Px(90, 90, 90)      \* dark but not red: scores 0

Inks == {Red, Pink, Violet}
Borders == {White, Red}

\* Colours whose scores meet a threshold to the last bit: 0.3 times the score
\* of Navy, 129.1666..., is the score of Mauve, 38.75, before rounding, and
\* 38.75000000000001 as the double the code compares with; 0.3 times the score
\* of Indigo, 199.1666..., is the score of Lilac, 59.75, before rounding, and
\* 59.74999999999999 as a double.
Mauve  == Px(169, 164, 255)
Navy   == Px(1, 0, 216)
Lilac  == Px(113, 112, 255)
Indigo == Px(1, 0, 96)
TieInks == {Mauve, Navy, Lilac, Indigo}

(***************************************************************************)
(* Step 1: the redness score of a pixel.                                   *)
(***************************************************************************)
rednessScore(p) ==
    LET avg == flDiv(Num(p.r + p.g + p.b), 3)
        isDark == flLess(avg, Num(220))
        redDominance == p.r > p.g /\ p.r > p.b
        pinkish == p.r > p.g \/ (p.r > p.b /\ Abs(p.r - p.g) < 50)
        darknessScore == flSub(Num(255), avg)
        redScore == IF redDominance
                    THEN Num(p.r - Min(p.g, p.b))
                    ELSE flDiv(Num(p.r - p.g + p.r - p.b), 2)
    IN  IF isDark /\ (redDominance \/ pinkish)
        THEN flAdd(darknessScore, flTimes(redScore, Literal05))
        ELSE Num(0)

\* The test of lines 90, 115, 249: the pixel is outside the edge band.
InInterior(x, y, width, height) ==
    /\ x >= edgeMargin /\ x < width - edgeMargin
    /\ y >= edgeMargin /\ y < height - edgeMargin

PixelAt(img, x, y) == img.data[y * img.width + x + 1]

\* rednessScores[y][x]: 0 in the edge band ("|| 0" gives 0 off the row too).
rednessScores(img) ==
    [y \in 0..(img.height - 1) |->
        [x \in 0..(img.width - 1) |->
            IF InInterior(x, y, img.width, img.height)
            THEN rednessScore(PixelAt(img, x, y))
            ELSE Num(0)]]

\* rednessScores[y][x] || 0 for a row of the grid: 0 off the row.
ScoreAt(row, width, x) ==
    IF x >= 0 /\ x < width THEN row[x] ELSE Num(0)

Range(s) == {s[i] : i \in 1..Len(s)}

\* A function as its table of values: it is then evaluated once, not at each use.
Concrete(f) == f @@ << >>
Concrete2(g) == Concrete([y \in DOMAIN g |-> Concrete(g[y])])

(***************************************************************************)
(* Step 2, first pass: per row the column whose +-5 window has the highest *)
(* average score; the first such column wins (the test is a strict >).     *)
(***************************************************************************)
\* windowScore += rednessScores[y][nx] for nx = from, from + 1, .. up to `to`.
RECURSIVE AddScores(_, _, _, _)
AddScores(row, from, to, sum) ==
    IF from > to THEN sum
    ELSE AddScores(row, from + 1, to, flAdd(sum, row[from]))

RECURSIVE SumOver(_, _)
SumOver(f, S) ==
    IF S = {} THEN 0
    ELSE LET c == CHOOSE c \in S : TRUE
         IN  f[c] + SumOver(f, S \ {c})

\* The columns nx of the window with nx >= edgeMargin && nx < width -
\* edgeMargin are those from `first` to `last`.
windowScore(row, x, width) ==
    LET first == Max(x - windowSize, edgeMargin)
        last == Min(x + windowSize, width - edgeMargin - 1)
        count == last - first + 1
    IN  IF count > 0
        THEN flDiv(AddScores(row, first, last, Num(0)), count)
        ELSE Num(0)

\* One turn of the loop over x: best is <<maxScore, bestX>>.
ScanColumn(row, width, x, best) ==
    LET w == windowScore(row, x, width)
    IN  IF flLess(best[1], w) THEN <<w, x>> ELSE best

\* The turns for x = from, from + 1, .. up to `to`, one after the other:
\* those of the first half of the columns, then those of the second half.
RECURSIVE ScanColumns(_, _, _, _, _)
ScanColumns(row, width, from, to, best) ==
    IF from > to THEN best
    ELSE IF from = to THEN ScanColumn(row, width, from, best)
    ELSE LET mid == (from + to) \div 2
         IN  Once(ScanColumns(row, width, from, mid, best),
                  LAMBDA half : ScanColumns(row, width, mid + 1, to, half))

\* The scan of x from `x` on, with the running maximum and its column.
ScanRow(row, width, x, maxScore, bestX) ==
    ScanColumns(row, width, x, width - edgeMargin - 1, <<maxScore, bestX>>)

\* lineCenterX[y] after the first pass.
FirstPassRow(row, width) ==
    LET best == ScanRow(row, width, edgeMargin, Num(0), null)
    IN  IF flLess(Num(5), best[1]) /\ best[2] # null
        THEN best[2]
        ELSE null

InteriorRows(height) == edgeMargin..(height - edgeMargin - 1)

FirstPass(scores, width, height) ==
    Concrete([y \in InteriorRows(height) |-> FirstPassRow(scores[y], width)])

MinOf(S) == CHOOSE m \in S : \A n \in S : m <= n

\* Math.round of a non-negative quotient a / b.
Round(a, b) == (2 * a + b) \div (2 * b)

(***************************************************************************)
(* Second pass: a null row takes the nearest non-null center up to 10 rows *)
(* back and ahead.  The pass writes lineCenterX in place while y ascends,  *)
(* so a row looks back at rows this pass has already filled.               *)
(***************************************************************************)
LookBackward(lc, y) ==
    LET ds == {dy \in 1..10 : y - dy >= edgeMargin /\ lc[y - dy] # null}
    IN  IF ds = {} THEN null ELSE lc[y - MinOf(ds)]

LookForward(lc, y, height) ==
    LET ds == {dy \in 1..10 : y + dy < height - edgeMargin /\ lc[y + dy] # null}
    IN  IF ds = {} THEN null ELSE lc[y + MinOf(ds)]

Interpolate(lc, y, width, height) ==
    LET prevX == LookBackward(lc, y)
        nextX == LookForward(lc, y, height)
    IN  IF prevX # null /\ nextX # null THEN Round(prevX + nextX, 2)
        ELSE IF prevX # null THEN prevX
        ELSE IF nextX # null THEN nextX
        ELSE width \div 2

RECURSIVE SecondPassFrom(_, _, _, _)
SecondPassFrom(lc, y, width, height) ==
    IF y >= height - edgeMargin THEN lc
    ELSE IF lc[y] = null
         THEN SecondPassFrom([lc EXCEPT ![y] = Interpolate(lc, y, width, height)],
                             y + 1, width, height)
         ELSE SecondPassFrom(lc, y + 1, width, height)

SecondPass(lc, width, height) == SecondPassFrom(lc, edgeMargin, width, height)

(***************************************************************************)
(* Third pass: a centered moving average over +-3 rows, for the rows that  *)
(* have three interior rows on either side; the others keep their center.  *)
(***************************************************************************)
Smoothed(lc, y) ==
    LET ys == {yy \in (y - smoothWindow)..(y + smoothWindow) : lc[yy] # null}
    IN  IF Cardinality(ys) > 0
        THEN Round(SumOver(lc, ys), Cardinality(ys))
        ELSE lc[y]

ThirdPass(lc, height) ==
    [y \in InteriorRows(height) |->
        IF y >= edgeMargin + smoothWindow /\ y < height - edgeMargin - smoothWindow
        THEN LET s == Smoothed(lc, y) IN IF s # null THEN s ELSE lc[y]
        ELSE lc[y]]

\* lineCenterX as step 3 reads it.
lineCenterX(scores, width, height) ==
    ThirdPass(Concrete(SecondPass(FirstPass(scores, width, height), width, height)), height)

(***************************************************************************)
(* Step 3: per row, from the center outward up to maxWidth columns to      *)
(* where the score drops below max(2, 0.3 * centerScore); the pixels in    *)
(* between that score above max(2, 0.25 * centerScore) are accepted.       *)
(***************************************************************************)
\* score < Math.max(2, centerScore * 0.3)
DropsBelow(score, centerScore) ==
    flLess(score, flMax(Num(2), flTimes(centerScore, Literal03)))

\* score > Math.max(2, centerScore * 0.25)
AboveThreshold(score, centerScore) ==
    flLess(flMax(Num(2), flTimes(centerScore, Literal025)), score)

leftBound(row, width, centerX, centerScore) ==
    LET stops == {dx \in 1..maxWidth :
                    \/ centerX - dx < edgeMargin
                    \/ DropsBelow(ScoreAt(row, width, centerX - dx), centerScore)}
    IN  IF stops = {} THEN centerX - maxWidth ELSE centerX - MinOf(stops) + 1

rightBound(row, width, centerX, centerScore) ==
    LET stops == {dx \in 1..maxWidth :
                    \/ centerX + dx >= width - edgeMargin
                    \/ DropsBelow(ScoreAt(row, width, centerX + dx), centerScore)}
    IN  IF stops = {} THEN centerX + maxWidth ELSE centerX + MinOf(stops) - 1

\* The accepted columns of row y from x to rightB, ascending.
RECURSIVE CollectRow(_, _, _, _, _, _, _)
CollectRow(row, width, y, x, rightB, centerScore, visited) ==
    IF x > rightB THEN << >>
    ELSE LET rest == CollectRow(row, width, y, x + 1, rightB, centerScore, visited)
         IN  IF /\ x >= edgeMargin /\ x < width - edgeMargin
                /\ <<x, y>> \notin visited
                /\ AboveThreshold(ScoreAt(row, width, x), centerScore)
             THEN <<[x |-> x, y |-> y]>> \o rest
             ELSE rest

\* The push without the mark in visited.
VisitUnmarked(acc, got) ==
    [coordinates |-> acc.coordinates \o got, visited |-> acc.visited]

\* visited[y][x] = true and the push, for the pixels a row accepted.
Visit(acc, got) ==
    [coordinates |-> acc.coordinates \o got,
     visited |-> acc.visited \cup {<<c.x, c.y>> : c \in Range(got)}]

\* One iteration of the row loop: acc is [coordinates, visited].
RowStep(scores, lc, width, y, acc) ==
    LET centerX == lc[y]
        row == scores[y]
        centerScore == ScoreAt(row, width, centerX)
    IN  IF centerX = null THEN acc
        ELSE IF flLess(centerScore, Num(1)) THEN acc
        ELSE LET got == CollectRow(row, width, y,
                                   leftBound(row, width, centerX, centerScore),
                                   rightBound(row, width, centerX, centerScore),
                                   centerScore, acc.visited)
             IN  Visit(acc, got)

RECURSIVE Step3From(_, _, _, _, _, _)
Step3From(scores, lc, width, height, y, acc) ==
    IF y >= height - edgeMargin THEN acc
    ELSE Step3From(scores, lc, width, height, y + 1,
                   RowStep(scores, lc, width, y, acc))

\* lineCoordinates when the row loop ends.
lineCoordinates(scores, lc, width, height) ==
    Step3From(scores, lc, width, height, edgeMargin,
              [coordinates |-> << >>, visited |-> {}]).coordinates

(***************************************************************************)
(* The fallback: the interior pixels of positive score in row-major order, *)
(* sorted by score descending (Array.prototype.sort is stable), cut to the *)
(* first max(1, floor(0.15 * n)).                                          *)
(***************************************************************************)
\* The list with the pixels of score 0 let in (>= 0 for > 0).
RECURSIVE RowWithScoreNonNegative(_, _, _, _)
RowWithScoreNonNegative(scores, img, y, x) ==
    IF x >= img.width - edgeMargin THEN << >>
    ELSE LET rest == RowWithScoreNonNegative(scores, img, y, x + 1)
         IN  IF ~flLess(scores[y][x], Num(0))
             THEN <<[score |-> scores[y][x], pixel |-> PixelAt(img, x, y),
                     x |-> x, y |-> y]>> \o rest
             ELSE rest

RECURSIVE RowWithScore(_, _, _, _)
RowWithScore(scores, img, y, x) ==
    IF x >= img.width - edgeMargin THEN << >>
    ELSE LET rest == RowWithScore(scores, img, y, x + 1)
         IN  IF flLess(Num(0), scores[y][x])
             THEN <<[score |-> scores[y][x], pixel |-> PixelAt(img, x, y),
                     x |-> x, y |-> y]>> \o rest
             ELSE rest

RECURSIVE allPixelsFrom(_, _, _)
allPixelsFrom(scores, img, y) ==
    IF y >= img.height - edgeMargin THEN << >>
    ELSE RowWithScore(scores, img, y, edgeMargin) \o allPixelsFrom(scores, img, y + 1)

allPixelsWithScore(scores, img) == allPixelsFrom(scores, img, edgeMargin)

MaxOf(S) == CHOOSE m \in S : \A n \in S : m >= n

\* sort((a, b) => b.score - a.score): equal scores keep their order.
RECURSIVE SortByScore(_, _)
SortByScore(all, values) ==
    IF values = {} THEN << >>
    ELSE LET m == CHOOSE v \in values : \A w \in values : ~flLess(v, w)
         IN  SelectSeq(all, LAMBDA e : e.score = m) \o SortByScore(all, values \ {m})

\* The list as the loops built it, without the sort.
sortDescendingSkipped(all) == all

sortDescending(all) == SortByScore(all, {all[i].score : i \in 1..Len(all)})

\* The cut without its floor of one pixel.
topCountUnfloored(n) == (15 * n) \div 100

topCount(n) == Max(1, (15 * n) \div 100)

topPixels(scores, img) ==
    LET sorted == sortDescending(allPixelsWithScore(scores, img))
    IN  SubSeq(sorted, 1, Min(topCount(Len(sorted)), Len(sorted)))

\* The test against a tenth of the interior rows.
tooFewOfInterior(n, height) == 10 * n < height - 2 * edgeMargin

\* linePixels.length < height * 0.1
tooFew(n, height) == 10 * n < height

(***************************************************************************)
(* detectLineAndExtractPixels.                                             *)
(***************************************************************************)
\* Lines 263-291: the fallback takes over when the rows gave too few pixels.
lineOrFallback(img, scores, coords) ==
    IF tooFew(Len(coords), img.height)
    THEN LET top == topPixels(scores, img)
         IN  [pixels |-> [i \in 1..Len(top) |-> top[i].pixel],
              coordinates |-> [i \in 1..Len(top) |-> [x |-> top[i].x, y |-> top[i].y]]]
    ELSE [pixels |-> [i \in 1..Len(coords) |-> PixelAt(img, coords[i].x, coords[i].y)],
          coordinates |-> coords]

detectLineAndExtractPixels(img) ==
    LET width == img.width
        height == img.height
        scores == Concrete2(rednessScores(img))
        lc == Concrete(lineCenterX(scores, width, height))
    IN  lineOrFallback(img, scores, lineCoordinates(scores, lc, width, height))

(***************************************************************************)
(* The earlier revision of the detector kept in src/utils/                 *)
(* imageProcessing.js: steps 1 and 2 and the fallback are the same; step 3 *)
(* takes the pixels up to lineWidth = 3 columns from the center that score *)
(* above max(1, 0.3 * centerScore) (half of it next to the center), and    *)
(* from row y also those of row y + 1 between the two centers.             *)
(***************************************************************************)
lineWidth == 3

\* score > localThreshold, for threshold = Math.max(1, centerScore * 0.3) and
\* localThreshold = distance <= 1 ? threshold * 0.5 : threshold
AboveLocal(score, centerScore, distance) ==
    LET threshold == flMax(Num(1), flTimes(centerScore, Literal03))
        localThreshold == IF distance <= 1
                          THEN flTimes(threshold, Literal05)
                          ELSE threshold
    IN  flLess(localThreshold, score)

\* The accepted columns of row y from x to endX, ascending.
RECURSIVE CollectNear(_, _, _, _, _, _, _, _)
CollectNear(row, width, y, x, endX, centerX, centerScore, visited) ==
    IF x > endX THEN << >>
    ELSE LET rest == CollectNear(row, width, y, x + 1, endX, centerX, centerScore, visited)
         IN  IF /\ x >= edgeMargin /\ x < width - edgeMargin
                /\ <<x, y>> \notin visited
                /\ AboveLocal(row[x], centerScore, Abs(x - centerX))
             THEN <<[x |-> x, y |-> y]>> \o rest
             ELSE rest

RowStepLineWidth(scores, lc, width, height, y, acc) ==
    LET centerX == lc[y]
        centerScore == ScoreAt(scores[y], width, centerX)
        around == Visit(acc, CollectNear(scores[y], width, y, centerX - lineWidth,
                                         centerX + lineWidth, centerX, centerScore,
                                         acc.visited))
    IN  IF y < height - edgeMargin - 1
        THEN LET nextY == y + 1
                 nextCenterX == lc[nextY]
                 nextCenterScore == ScoreAt(scores[nextY], width, nextCenterX)
             IN  Visit(around,
                       CollectNear(scores[nextY], width, nextY,
                                   Min(centerX, nextCenterX) - lineWidth,
                                   Max(centerX, nextCenterX) + lineWidth,
                                   nextCenterX, nextCenterScore, around.visited))
        ELSE around

RECURSIVE Step3LineWidthFrom(_, _, _, _, _, _)
Step3LineWidthFrom(scores, lc, width, height, y, acc) ==
    IF y >= height - edgeMargin THEN acc
    ELSE Step3LineWidthFrom(scores, lc, width, height, y + 1,
                            RowStepLineWidth(scores, lc, width, height, y, acc))

lineCoordinatesLineWidth(scores, lc, width, height) ==
    Step3LineWidthFrom(scores, lc, width, height, edgeMargin,
                       [coordinates |-> << >>, visited |-> {}]).coordinates

detectLineAndExtractPixelsLineWidth(img) ==
    LET width == img.width
        height == img.height
        scores == Concrete2(rednessScores(img))
        lc == Concrete(lineCenterX(scores, width, height))
    IN  lineOrFallback(img, scores, lineCoordinatesLineWidth(scores, lc, width, height))

(***************************************************************************)
(* calculateAverageRGB.  The forEach adds the channels up; the sum is      *)
(* taken here value by value (value times the number of pixels with it).   *)
(***************************************************************************)
RECURSIVE SumByValue(_, _, _)
SumByValue(pixels, ch, values) ==
    IF values = {} THEN 0
    ELSE LET v == CHOOSE v \in values : TRUE
         IN  v * Cardinality({i \in 1..Len(pixels) : pixels[i][ch] = v})
               + SumByValue(pixels, ch, values \ {v})

channelSum(pixels, ch) ==
    SumByValue(pixels, ch, {pixels[i][ch] : i \in 1..Len(pixels)})

\* The weights of the red and the green mean exchanged.
luminanceSwapped(avgR, avgG, avgB) ==
    flAdd(flAdd(flTimes(avgR, Literal0587), flTimes(avgG, Literal0299)),
          flTimes(avgB, Literal0114))

\* avgR * 0.299 + avgG * 0.587 + avgB * 0.114, each product and each sum
\* rounded to a double.
luminance(avgR, avgG, avgB) ==
    flAdd(flAdd(flTimes(avgR, Literal0299), flTimes(avgG, Literal0587)),
          flTimes(avgB, Literal0114))

\* Without the guard for the empty selection: 0 / 0, the NaN <<0, 0>>.
calculateAverageRGBUnguarded(pixels, coordinates) ==
    IF Len(pixels) = 0
    THEN [r |-> <<0, 0>>, g |-> <<0, 0>>, b |-> <<0, 0>>, grayscale |-> <<0, 0>>,
          linePixels |-> coordinates]
    ELSE LET avgR == flDiv(Num(channelSum(pixels, "r")), Len(pixels))
             avgG == flDiv(Num(channelSum(pixels, "g")), Len(pixels))
             avgB == flDiv(Num(channelSum(pixels, "b")), Len(pixels))
             grayscale == luminance(avgR, avgG, avgB)
         IN  [r |-> avgR, g |-> avgG, b |-> avgB, grayscale |-> grayscale,
              linePixels |-> coordinates]

calculateAverageRGB(pixels, coordinates) ==
    IF Len(pixels) = 0
    THEN [r |-> Num(0), g |-> Num(0), b |-> Num(0), grayscale |-> Num(0),
          linePixels |-> << >>]
    ELSE LET avgR == flDiv(Num(channelSum(pixels, "r")), Len(pixels))
             avgG == flDiv(Num(channelSum(pixels, "g")), Len(pixels))
             avgB == flDiv(Num(channelSum(pixels, "b")), Len(pixels))
             grayscale == luminance(avgR, avgG, avgB)
         IN  [r |-> avgR, g |-> avgG, b |-> avgB, grayscale |-> grayscale,
              linePixels |-> coordinates]

(***************************************************************************)
(* The rasters an image can decode to: any size up to MaxW x MaxH, a       *)
(* uniform edge band, paper inside with at most MaxInk inked pixels.       *)
(***************************************************************************)
\* The pixels at least 5 pixels from every edge of the raster.
InteriorCells(width, height) == (5..(width - 6)) \X (5..(height - 6))

MakeRaster(width, height, border, ink) ==
    [width |-> width, height |-> height,
     data |-> [i \in 1..(width * height) |->
                LET x == (i - 1) % width
                    y == (i - 1) \div width
                IN  IF <<x, y>> \in DOMAIN ink THEN ink[<<x, y>>]
                    ELSE IF <<x, y>> \in InteriorCells(width, height) THEN White
                    ELSE border]]

InkPlacements(width, height) ==
    UNION {[cells -> Inks] :
            cells \in {S \in SUBSET InteriorCells(width, height) :
                         Cardinality(S) <= MaxInk}}

\* The same with the colours of TieInks, for the widest rasters of one
\* interior row.
TiePlacements(width, height) ==
    IF width = MaxW /\ height = 2 * edgeMargin + 1
    THEN UNION {[cells -> TieInks] :
                 cells \in {S \in SUBSET InteriorCells(width, height) :
                              Cardinality(S) <= MaxInk}}
    ELSE {}


(***************************************************************************)
(* processImage: the promise is pending until the image loads (onload      *)
(* runs the detector and the aggregator and resolves) or fails (onerror).  *)
(* getImageData throws for an image without pixels: onload ends there and  *)
(* the promise is never settled (pc = "thrown").                           *)
(***************************************************************************)
NoImage == [width |-> 0, height |-> 0, data |-> << >>]
NoLine == [pixels |-> << >>, coordinates |-> << >>]
NoRGB == [r |-> Num(0), g |-> Num(0), b |-> Num(0), grayscale |-> Num(0),
          linePixels |-> << >>]

NoROI == [x |-> 0, y |-> 0, width |-> 0, height |-> 0]

\* App and ImageCanvas before anything is uploaded.
AppInit ==
    /\ images = << >>
    /\ selected = 0
    /\ processing = FALSE
    /\ results = << >>
    /\ sortedImages = << >>
    /\ processedResults = << >>
    /\ loopIndex = 0
    /\ late = 0

(***************************************************************************)
(* JavaScript values beyond the doubles: NaN, undefined, and an image's    *)
(* rgb: null.  A - B converts both operands with ToNumber; a plain object  *)
(* converts through "[object Object]" to NaN, undefined converts to NaN.   *)
(***************************************************************************)
NaN == <<0, 0>>
undefined == <<"undefined">>

\* No scan of Strategy A is under way.
FillInit ==
    /\ scanAt = 0
    /\ stackNow = << >>
    /\ visitedNow = {}
    /\ regionNow = << >>
    /\ largestNow = << >>
    /\ readAt = << >>
    /\ grayscaleData = << >>
    /\ thresholdNow = NaN

\* ImageCanvas as mounted: no canvas has been sized, the brush is 10 wide.
CanvasInit ==
    /\ canvas = [width |-> 300, height |-> 150]
    /\ overlay = [width |-> 300, height |-> 150]
    /\ paintedPixels = {}
    /\ history = << >>
    /\ isDrawing = FALSE
    /\ mode = "paint"
    /\ brushSize = 10
    /\ dpo = << >>
    /\ timers = << >>
    /\ loads = EmptyBag
    /\ blobs = EmptyBag
    /\ events = 0

Revisions == {"maxWidth", "lineWidth"}

detect(rev, img) ==
    IF rev = "maxWidth"
    THEN detectLineAndExtractPixels(img)
    ELSE detectLineAndExtractPixelsLineWidth(img)

Init ==
    /\ revision \in Revisions
    /\ pc = "pending"
    /\ imageData = NoImage
    /\ lineData = NoLine
    /\ avgRGB = NoRGB
    /\ original = NoImage
    /\ roi = NoROI
    /\ AppInit
    /\ CanvasInit
    /\ FillInit

onload(img) ==
    /\ pc = "pending"
    /\ IF img.width = 0 \/ img.height = 0
       THEN /\ pc' = "thrown"
            /\ UNCHANGED <<imageData, lineData, avgRGB>>
       ELSE /\ imageData' = img
            /\ lineData' = detect(revision, img)
            /\ avgRGB' = calculateAverageRGB(lineData'.pixels,
                                             lineData'.coordinates)
            /\ pc' = "resolved"
    /\ UNCHANGED <<revision, original, roi, appVars, canvasVars>>

onerror ==
    /\ pc = "pending"
    /\ pc' = "rejected"
    /\ UNCHANGED <<imageData, lineData, avgRGB, revision, original, roi, appVars, canvasVars>>
    /\ UNCHANGED fillVars

\* The next call of processImage starts from a fresh promise.
processImage ==
    /\ pc \in {"resolved", "rejected"}
    /\ pc' = "pending"
    /\ imageData' = NoImage
    /\ lineData' = NoLine
    /\ avgRGB' = NoRGB
    /\ UNCHANGED <<revision, original, roi, appVars, canvasVars>>
    /\ UNCHANGED fillVars

\* The image decodes to some raster and onload runs on it.
Load ==
    /\ pc = "pending"
    /\ \E w \in 0..MaxW, h \in 0..MaxH, border \in Borders :
         \E ink \in InkPlacements(w, h) \cup TiePlacements(w, h) :
            onload(MakeRaster(w, h, border, ink))
    /\ UNCHANGED fillVars

Next ==
    \/ Load
    \/ onerror
    \/ processImage

Spec == Init /\ [][Next]_vars

(***************************************************************************)
(* What the properties below speak of.                                     *)
(***************************************************************************)
Resolved == pc = "resolved"

HasInterior(img) == img.width >= 11 /\ img.height >= 11

\* The coordinates the row loop of step 3 ends with, before lines 263-291.
rowFollowing(rev, img) ==
    LET scores == Concrete2(rednessScores(img))
        lc == Concrete(lineCenterX(scores, img.width, img.height))
    IN  IF rev = "maxWidth"
        THEN lineCoordinates(scores, lc, img.width, img.height)
        ELSE lineCoordinatesLineWidth(scores, lc, img.width, img.height)

\* The run took the fallback of lines 263-286.
FellBack == tooFew(Len(rowFollowing(revision, imageData)), imageData.height)

\* The interior pixels of positive redness score.
PositiveCells(img) ==
    {c \in InteriorCells(img.width, img.height) :
        flLess(Num(0), rednessScore(PixelAt(img, c[1], c[2])))}

IsZero(q) == q = Num(0)
IsNumber(q) == q[2] > 0

\* C1: every coordinate the detector returns, on the row-following path and
\* on the fallback path, has 5 <= x < W - 5 and 5 <= y < H - 5: none lies in
\* the 5-pixel edge band.
C1_CoordinatesOffTheEdgeBand ==
    Resolved =>
        \A i \in 1..Len(lineData.coordinates) :
            LET c == lineData.coordinates[i]
            IN  /\ 5 <= c.x /\ c.x < imageData.width - 5
                /\ 5 <= c.y /\ c.y < imageData.height - 5

\* A raster whose edge band is red all round, and a selection taken from it.
C1_Witness ==
    /\ Resolved
    /\ HasInterior(imageData)
    /\ PixelAt(imageData, 4, 5) = Red
    /\ Len(lineData.coordinates) >= 2
    /\ ~FellBack

\* C2: no (x, y) appears twice in the selection the detector returns.
C2_NoCoordinateTwice ==
    Resolved =>
        \A i, j \in 1..Len(lineData.coordinates) :
            i # j => lineData.coordinates[i] # lineData.coordinates[j]

\* The earlier revision took a pixel of row 6 while at row 5, and met it again
\* at row 6.
C2_Witness ==
    /\ Resolved
    /\ revision = "lineWidth"
    /\ ~FellBack
    /\ \E i, j \in 1..Len(lineData.coordinates) :
          /\ lineData.coordinates[i].y = 5
          /\ lineData.coordinates[j].y = 6

\* C3 as stated: every raster with W >= 11 and H >= 11 yields at least one pixel.
C3_NonEmptyWithInterior ==
    (Resolved /\ HasInterior(imageData)) => Len(lineData.pixels) >= 1

\* C3, amended: the selection is empty exactly when no interior pixel has a
\* positive redness score (no interior at all, or an interior that scores 0
\* everywhere, such as an all-white one).
C3_EmptyExactlyWithoutScore ==
    Resolved => (Len(lineData.pixels) = 0 <=> PositiveCells(imageData) = {})

\* One scoring pixel, too few for the row-following path: the fallback keeps it.
C3_Witness ==
    /\ Resolved
    /\ HasInterior(imageData)
    /\ Cardinality(PositiveCells(imageData)) = 1
    /\ FellBack
    /\ Len(lineData.pixels) = 1

\* The rasters without pixels, which getImageData never returns: the
\* detector can be given them only by a direct call.
EmptyRasters ==
    {MakeRaster(size[1], size[2], White, << >>) :
        size \in {wh \in (0..MaxW) \X (0..MaxH) : wh[1] = 0 \/ wh[2] = 0}}

\* C4: a degenerate raster (W < 11 or H < 11, W = 0 and H = 0 included) is
\* processed to the end, with an empty selection and the all-zero summary.
C4_DegenerateRasterGivesZero ==
    (Resolved /\ ~HasInterior(imageData)) =>
        /\ lineData.pixels = << >>
        /\ lineData.coordinates = << >>
        /\ IsZero(avgRGB.r) /\ IsZero(avgRGB.g) /\ IsZero(avgRGB.b)
        /\ IsZero(avgRGB.grayscale)
        /\ \A img \in EmptyRasters :
              /\ detect(revision, img) = NoLine
              /\ calculateAverageRGB(<< >>, << >>) = NoRGB

\* A raster ten pixels wide of red all over, with rows for the passes to run on.
C4_Witness ==
    /\ Resolved
    /\ imageData.width = 10
    /\ imageData.height >= 11
    /\ PixelAt(imageData, 5, 5) = Red
    /\ IsZero(avgRGB.grayscale)

RectFar == 600
FarTall == 26

\* The rows above the rectangle of a far raster: 2 * edgeMargin + 1 white
\* interior rows after the edge band.
FarTop == 3 * edgeMargin + 1

\* <<x0, x1, y0, y1>> of the rectangles of the far rasters: 12 and 18
\* columns at the left margin, off it, and right of the middle column.
FarRectangles ==
    {<<x0, x0 + N - 1, FarTop, FarTall - edgeMargin - 1>> :
        x0 \in {edgeMargin, 2 * edgeMargin, RectFar - 28}, N \in {12, 18}}

RectSizes ==
    ((11..13) \X {11, 12, RectTall}) \cup ({RectWide} \X {11, 12})

\* The rectangle of columns x0..x1 and rows y0..y1.
RectangleRaster(width, height, x0, x1, y0, y1) ==
    [width |-> width, height |-> height,
     data |-> [i \in 1..(width * height) |->
                LET x == (i - 1) % width
                    y == (i - 1) \div width
                IN  IF x0 <= x /\ x <= x1 /\ y0 <= y /\ y <= y1 THEN Red ELSE White]]

InitRect ==
    /\ revision = "maxWidth"
    /\ pc = "pending"
    /\ imageData = NoImage
    /\ lineData = NoLine
    /\ avgRGB = NoRGB
    /\ original = NoImage
    /\ roi = NoROI
    /\ AppInit
    /\ CanvasInit
    /\ FillInit

LoadRect ==
    /\ pc = "pending"
    /\ \E size \in RectSizes :
         \E x0, x1 \in 5..(size[1] - 6), y0, y1 \in 5..(size[2] - 6) :
            /\ x0 <= x1
            /\ y0 <= y1
            /\ onload(RectangleRaster(size[1], size[2], x0, x1, y0, y1))
    /\ UNCHANGED fillVars

LoadFar ==
    /\ pc = "pending"
    /\ \E r \in FarRectangles :
         onload(RectangleRaster(RectFar, FarTall, r[1], r[2], r[3], r[4]))
    /\ UNCHANGED fillVars

NextRect ==
    \/ LoadRect
    \/ LoadFar
    \/ onerror
    \/ processImage

SpecRect == InitRect /\ [][NextRect]_vars

\* The red pixels of a raster, and the box [left, right, top, bottom] of a
\* set of <<x, y>>.
RedCells(img) ==
    {c \in (0..(img.width - 1)) \X (0..(img.height - 1)) :
        PixelAt(img, c[1], c[2]) = Red}

BoxOf(cells) ==
    [left |-> MinOf({c[1] : c \in cells}), right |-> MaxOf({c[1] : c \in cells}),
     top |-> MinOf({c[2] : c \in cells}), bottom |-> MaxOf({c[2] : c \in cells})]

Selected == {<<lineData.coordinates[i].x, lineData.coordinates[i].y>> :
                i \in 1..Len(lineData.coordinates)}

\* White everywhere but for one solid-red rectangle inside the interior.
IsRedRectangle(img) ==
    LET red == RedCells(img)
    IN  /\ red # {}
        /\ red \subseteq InteriorCells(img.width, img.height)
        /\ LET box == BoxOf(red)
           IN  red = (box.left..box.right) \X (box.top..box.bottom)
        /\ \A i \in 1..Len(img.data) : img.data[i] \in {Red, White}

(***************************************************************************)
(* SpecAverage: calculateAverageRGB applied to a selection of up to        *)
(* MaxSelection pixels of the colours of AveragedColours, in any order and *)
(* with repeats, so that the sums are and are not multiples of the number  *)
(* of pixels.                                                              *)
(***************************************************************************)
MaxSelection == 3

AveragedColours == {White, Red, Pink, Violet, Grey}

\* A selection as the detector returns it: the pixels and, for each, its
\* place, here side by side in the first interior row.
SelectionOf(pixels) ==
    [pixels |-> pixels,
     coordinates |-> [i \in 1..Len(pixels) |-> [x |-> edgeMargin + i - 1, y |-> edgeMargin]]]

InitAverage ==
    /\ revision = "maxWidth"
    /\ pc = "detected"
    /\ imageData = NoImage
    /\ \E n \in 0..MaxSelection :
         \E pixels \in [1..n -> AveragedColours] : lineData = SelectionOf(pixels)
    /\ avgRGB = NoRGB
    /\ original = NoImage
    /\ roi = NoROI
    /\ AppInit
    /\ CanvasInit
    /\ FillInit

\* const avgRGB = calculateAverageRGB(lineData.pixels, lineData.coordinates)
\* and the promise is resolved with it.
average ==
    /\ pc = "detected"
    /\ avgRGB' = calculateAverageRGB(lineData.pixels, lineData.coordinates)
    /\ pc' = "resolved"
    /\ UNCHANGED <<imageData, lineData, revision, original, roi, appVars, canvasVars>>
    /\ UNCHANGED fillVars

NextAverage == average

SpecAverage == InitAverage /\ [][NextAverage]_vars

\* The sum of a channel over a sequence of pixels, colour by colour.
RECURSIVE SumByColour(_, _, _)
SumByColour(pixels, ch, colours) ==
    IF colours = {} THEN 0
    ELSE LET p == CHOOSE p \in colours : TRUE
         IN  p[ch] * Cardinality({i \in 1..Len(pixels) : pixels[i] = p})
               + SumByColour(pixels, ch, colours \ {p})

Total(pixels, ch) == SumByColour(pixels, ch, Range(pixels))

\* The double v is the number a / b: no rounding has moved it.
IsExactly(v, a, b) == v[3] = 0 /\ v[1] * b = a * v[2]

\* C6 as stated: for a selection of n > 0 pixels r = sumR / n, g = sumG / n,
\* b = sumB / n and 1000 n grayscale = 299 sumR + 587 sumG + 114 sumB.
C6_LumaOfMeansExactly ==
    (Resolved /\ Len(lineData.pixels) > 0) =>
        LET n == Len(lineData.pixels)
            sumR == Total(lineData.pixels, "r")
            sumG == Total(lineData.pixels, "g")
            sumB == Total(lineData.pixels, "b")
        IN  /\ IsExactly(avgRGB.r, sumR, n)
            /\ IsExactly(avgRGB.g, sumG, n)
            /\ IsExactly(avgRGB.b, sumB, n)
            /\ IsExactly(avgRGB.grayscale, 299 * sumR + 587 * sumG + 114 * sumB,
                         1000 * n)

\* C6, amended: for a selection of n > 0 pixels r, g and b are the doubles
\* nearest sumR / n, sumG / n and sumB / n, and grayscale is the double
\* r * 0.299 + g * 0.587 + b * 0.114 computed from those three means, the
\* products and the sums rounded one by one; it is the rounded value of
\* what would be (299 sumR + 587 sumG + 114 sumB) / (1000 n) without the
\* roundings, and need not be that number.
C6_MeansAndLumaOfMeans ==
    (Resolved /\ Len(lineData.pixels) > 0) =>
        LET n == Len(lineData.pixels)
            sumR == Total(lineData.pixels, "r")
            sumG == Total(lineData.pixels, "g")
            sumB == Total(lineData.pixels, "b")
            r == fl(sumR, n, 0, 0)
            g == fl(sumG, n, 0, 0)
            b == fl(sumB, n, 0, 0)
            luma == avgRGB.grayscale
            weighted == 299 * sumR + 587 * sumG + 114 * sumB
            common == GCD(weighted, 1000 * n)
        IN  /\ avgRGB.r = r /\ avgRGB.g = g /\ avgRGB.b = b
            /\ luma = flAdd(flAdd(flTimes(r, Dec(299, 1000)), flTimes(g, Dec(587, 1000))),
                            flTimes(b, Dec(114, 1000)))
            /\ luma[1] * common = weighted /\ luma[2] * common = 1000 * n

\* Three pixels of two colours: the red mean 710 / 3 is no double and is
\* rounded, and the grayscale is not the number 99.45 either.
C6_Witness ==
    /\ Resolved
    /\ lineData.pixels = <<Red, Red, Violet>>
    /\ avgRGB.r[1] = 710 /\ avgRGB.r[2] = 3 /\ avgRGB.r[3] # 0
    /\ avgRGB.g = <<100, 3, avgRGB.g[3]>> /\ avgRGB.g[3] # 0
    /\ avgRGB.b = Num(80)
    /\ avgRGB.grayscale[1] = 1989 /\ avgRGB.grayscale[2] = 20
    /\ avgRGB.grayscale[3] # 0

\* C8: with one solid-red rectangle on white, the selection is not empty and
\* lies within the rectangle, so the mean colour is the fill colour.
C8_RectangleColourRecovered ==
    (Resolved /\ IsRedRectangle(imageData)) =>
        /\ Selected # {}
        /\ Selected \subseteq RedCells(imageData)
        /\ avgRGB.r = Num(255) /\ avgRGB.g = Num(0) /\ avgRGB.b = Num(0)

\* A rectangle of several pixels whose rows gave nothing: the fallback ran.
C8_Witness ==
    /\ Resolved
    /\ IsRedRectangle(imageData)
    /\ Cardinality(RedCells(imageData)) >= 4
    /\ FellBack
    /\ avgRGB.r = Num(255)

\* C9 as stated: the box of the selection matches the box of the rectangle
\* within a small tolerance (2 pixels a side), whatever the rectangle's size.
C9_BoxMatchesRectangle ==
    (Resolved /\ IsRedRectangle(imageData) /\ Selected # {}) =>
        LET got == BoxOf(Selected)
            box == BoxOf(RedCells(imageData))
        IN  /\ Abs(got.left - box.left) <= 2 /\ Abs(got.right - box.right) <= 2
            /\ Abs(got.top - box.top) <= 2 /\ Abs(got.bottom - box.bottom) <= 2

\* The columns of row y in the selection.
SelectedInRow(y) == {c[1] : c \in {d \in Selected : d[2] = y}}

\* C9, amended: the box of the selection lies inside the rectangle's.  When
\* the row-following result is returned, a row of the rectangle gives the
\* columns of the rectangle that are at most 8 columns from the smoothed
\* center of the row when that center is on the rectangle, and no pixel
\* when it is not: between min(N, 9) and min(N, 17) of the N columns.  When
\* the fallback runs the selection is the first max(1, floor(0.15 n)) of the
\* rectangle's n pixels in row-major order.
C9_BoxInsideRectangle ==
    (Resolved /\ IsRedRectangle(imageData) /\ Selected # {}) =>
        LET got == BoxOf(Selected)
            box == BoxOf(RedCells(imageData))
            N == box.right - box.left + 1
            n == Cardinality(RedCells(imageData))
            lc == Concrete(lineCenterX(Concrete2(rednessScores(imageData)),
                                       imageData.width, imageData.height))
        IN  /\ box.left <= got.left /\ got.right <= box.right
            /\ box.top <= got.top /\ got.bottom <= box.bottom
            /\ ~FellBack =>
                  \A y \in box.top..box.bottom :
                     LET cols == SelectedInRow(y)
                     IN  IF box.left <= lc[y] /\ lc[y] <= box.right
                         THEN /\ cols = {x \in box.left..box.right : Abs(x - lc[y]) <= 8}
                              /\ Min(N, 9) <= Cardinality(cols)
                              /\ Cardinality(cols) <= Min(N, 17)
                         ELSE cols = {}
            /\ FellBack =>
                  /\ Cardinality(Selected) = (IF 15 * n >= 100 THEN (15 * n) \div 100 ELSE 1)
                  /\ \A c \in Selected, d \in RedCells(imageData) :
                        (d[2] < c[2] \/ (d[2] = c[2] /\ d[1] < c[1])) => d \in Selected

\* A far raster with a rectangle of 18 columns: its first row gives 15 of
\* them, the center having moved a column towards the middle of the raster,
\* and the next row 14.
C9_Witness ==
    /\ Resolved
    /\ IsRedRectangle(imageData)
    /\ ~FellBack
    /\ imageData.width = RectFar
    /\ BoxOf(RedCells(imageData)).right - BoxOf(RedCells(imageData)).left + 1 = 18
    /\ Cardinality(SelectedInRow(FarTop)) = 15
    /\ Cardinality(SelectedInRow(FarTop + 1)) = 14

(***************************************************************************)
(* The region runs: the detector on the cropped image of a region against  *)
(* the detector on the uploaded image.  The inputs are the uploaded image  *)
(* (12..CropMaxW wide and 12 or 13 high, white with at most MaxInk red or  *)
(* pink pixels in the interior) and the region handleSaveROI stored for it *)
(* with the canvas at the natural size of the image (scaleX = scaleY = 1); *)
(* the step is processImage's load of the cropped image.                   *)
(***************************************************************************)
CropSizes == (12..CropMaxW) \X {12, 13}

CropInkPlacements(width, height) ==
    UNION {[cells -> {Red, Pink}] :
            cells \in {S \in SUBSET InteriorCells(width, height) :
                         Cardinality(S) <= MaxInk}}

\* drawImage with the source rectangle one column further right.
cropShifted(img, sx, sy, sw, sh) ==
    [width |-> sw, height |-> sh,
     data |-> [i \in 1..(sw * sh) |->
                LET x == (i - 1) % sw
                    y == (i - 1) \div sw
                IN  IF sx + 1 + x < img.width /\ sy + y < img.height
                    THEN PixelAt(img, sx + 1 + x, sy + y)
                    ELSE [r |-> 0, g |-> 0, b |-> 0, a |-> 0]]]

\* drawImage(image, sx, sy, sw, sh, 0, 0, sw, sh) on a canvas of sw x sh,
\* then the raster of the canvas: a copy of the source rectangle (a pixel
\* outside of the image stays transparent black).
crop(img, sx, sy, sw, sh) ==
    [width |-> sw, height |-> sh,
     data |-> [i \in 1..(sw * sh) |->
                LET x == (i - 1) % sw
                    y == (i - 1) \div sw
                IN  IF sx + x < img.width /\ sy + y < img.height
                    THEN PixelAt(img, sx + x, sy + y)
                    ELSE [r |-> 0, g |-> 0, b |-> 0, a |-> 0]]]

croppedImage == crop(original, roi.x, roi.y, roi.width, roi.height)

\* The regions of an image of this size: x = minX, width = maxX - minX of
\* painted columns 0 <= minX <= maxX < width, and the like for the rows.
\* The regions of more than 10 pixels each way are taken, and the one of 10
\* by 10 at the origin (a crop of 10 pixels or less a way has no pixel
\* between its margins of 5).
CropRects(width, height) ==
    {[x |-> minX, y |-> minY, width |-> maxX - minX, height |-> maxY - minY] :
        <<minX, maxX, minY, maxY>> \in
            {b \in (0..(width - 1)) \X (0..(width - 1)) \X
                    (0..(height - 1)) \X (0..(height - 1)) :
                \/ b[2] - b[1] > 10 /\ b[4] - b[3] > 10
                \/ b = <<0, 10, 0, 10>>}}

InitCrop ==
    /\ revision = "maxWidth"
    /\ pc = "pending"
    /\ imageData = NoImage
    /\ lineData = NoLine
    /\ avgRGB = NoRGB
    /\ \E size \in CropSizes :
         /\ original \in {MakeRaster(size[1], size[2], White, ink) :
                             ink \in CropInkPlacements(size[1], size[2])}
         /\ roi \in CropRects(size[1], size[2])
    /\ AppInit
    /\ CanvasInit
    /\ FillInit

\* processImage(image.croppedImageUrl): the cropped image loads.
LoadCrop ==
    /\ pc = "pending"
    /\ onload(croppedImage)
    /\ UNCHANGED fillVars

NextCrop ==
    \/ LoadCrop

SpecCrop == InitCrop /\ [][NextCrop]_vars

\* The selection of the crop in the coordinates of the uploaded image.
SelectedInOriginal == {<<c[1] + roi.x, c[2] + roi.y>> : c \in Selected}

SelectedOf(line) == {<<line.coordinates[i].x, line.coordinates[i].y>> :
                        i \in 1..Len(line.coordinates)}

RegionCells == (roi.x..(roi.x + roi.width - 1)) \X (roi.y..(roi.y + roi.height - 1))

\* The region holds every pixel of the image that is not white.
LineInsideRegion ==
    \A x \in 0..(original.width - 1), y \in 0..(original.height - 1) :
        PixelAt(original, x, y) # White => <<x, y>> \in RegionCells

CroppedRun == Resolved /\ roi # NoROI /\ imageData = croppedImage

\* C10 as stated: when the region holds the whole line, the selection of the
\* crop, moved by the offset, is within the selection of the full raster
\* met with the region.
C10_CropSelectionWithinFull ==
    (CroppedRun /\ LineInsideRegion) =>
        SelectedInOriginal \subseteq
            (SelectedOf(detectLineAndExtractPixels(original)) \cap RegionCells)

\* C10, amended: the selection of the crop, moved by the offset, is within
\* the pixels of positive score of the full raster that lie 5 pixels or
\* more inside the region, and each selected pixel has the colour the full
\* raster has there.
C10_CropSelectionWithinLine ==
    (CroppedRun /\ LineInsideRegion) =>
        /\ SelectedInOriginal \subseteq
             {c \in RegionCells :
                 /\ flLess(Num(0), rednessScore(PixelAt(original, c[1], c[2])))
                 /\ roi.x + 5 <= c[1] /\ c[1] < roi.x + roi.width - 5
                 /\ roi.y + 5 <= c[2] /\ c[2] < roi.y + roi.height - 5}
        /\ \A i \in 1..Len(lineData.coordinates) :
              lineData.pixels[i] =
                  PixelAt(original, lineData.coordinates[i].x + roi.x,
                                    lineData.coordinates[i].y + roi.y)

\* A crop off the left edge of the image with the whole line in it, two
\* pixels selected, not both of them selected in the full raster.
C10_Witness ==
    /\ CroppedRun
    /\ LineInsideRegion
    /\ roi.x > 0
    /\ Cardinality(Selected) = 2
    /\ ~(SelectedInOriginal \subseteq SelectedOf(detectLineAndExtractPixels(original)))

nullObject == [isNull |-> TRUE]
nullUrl == "null"

ToNumberObject(obj) == NaN
ToNumber(v) == IF v = undefined THEN NaN ELSE v
Minus(a, b) == IF a = NaN \/ b = NaN THEN NaN ELSE flSub(a, b)

\* obj.field of a plain object.
Get(obj, field) == IF field \in DOMAIN obj THEN obj[field] ELSE undefined

(***************************************************************************)
(* The batch runs: App holds the uploaded images; each gets its days and   *)
(* its cropped image, and handleStart processes them one after another in  *)
(* the order of their days.  A cropped image is one of two 11 x 11 rasters *)
(* (white, or white with a red pixel at its centre).  The handlers of App  *)
(* are called whenever the user acts, also while handleStart awaits a      *)
(* processImage call and after it has ended; `late' counts the calls made  *)
(* once a first run has begun.  ImageCanvas is left out of these runs: its *)
(* calls of onROIUpdate, onDPOUpdate and onResetROI are the handlers'      *)
(* inputs.                                                                 *)
(*                                                                         *)
(* An image object is [id, dpo, croppedImageUrl, rgb, inRun]; dpo is <<n>> *)
(* for the number n, NaN, or << >> for null.  inRun tells that the object  *)
(* in the images state is the very object the sortedImages of the running  *)
(* handleStart holds ([...images] copies the references): image.rgb = rgb  *)
(* is seen in the state through such an object only, and each              *)
(* prev.map(... { ...img, ... } ...) of a handler puts a new object in its *)
(* place.  url, file and roi of the objects are not read by handleStart    *)
(* and are left out.                                                       *)
(***************************************************************************)
Blobs == {"blob:white", "blob:red"}

\* The raster the image at a blob URL decodes to.
decode(url) ==
    LET ink == IF url = "blob:white" THEN {} ELSE {<<5, 5>>}
    IN  MakeRaster(11, 11, White, [c \in ink |-> Red])

nullDpo == << >>

DigitChars == <<"0", "1", "2", "3", "4", "5", "6", "7", "8", "9">>

DigitValue(ch) == CHOOSE d \in 0..9 : DigitChars[d + 1] = ch

\* Number.prototype.toString of an integer, as its characters.
RECURSIVE toString(_)
toString(n) ==
    IF n < 0 THEN <<"-">> \o toString(0 - n)
    ELSE IF n < 10 THEN <<DigitChars[n + 1]>>
    ELSE toString(n \div 10) \o <<DigitChars[(n % 10) + 1]>>

\* The digits at the head of a text, as a number; -1 for no digit.
RECURSIVE DigitsValue(_, _)
DigitsValue(text, acc) ==
    IF text = << >> \/ Head(text) \notin {DigitChars[d] : d \in 1..10} THEN acc
    ELSE DigitsValue(Tail(text), (IF acc < 0 THEN 0 ELSE acc * 10) + DigitValue(Head(text)))

\* parseInt(text): an optional sign, then the digits up to the first other
\* character; NaN when there is no digit.
parseInt(text) ==
    LET negative == text # << >> /\ Head(text) = "-"
        signed == text # << >> /\ Head(text) \in {"-", "+"}
        magnitude == DigitsValue(IF signed THEN Tail(text) ELSE text, -1)
    IN  IF magnitude < 0 THEN NaN
        ELSE <<IF negative THEN 0 - magnitude ELSE magnitude>>

\* What the user types into the days field: nothing, one of the numbers
\* -1..MaxDpo (the field is a number input without a minimum), or a number
\* that begins with its decimal point, of which parseInt makes NaN.
DpoTyped == {<< >>, <<".", "5">>} \cup {toString(n) : n \in (-1)..MaxDpo}

canStart ==
    /\ Len(images) > 0
    /\ \A k \in 1..Len(images) :
          images[k].croppedImageUrl # nullUrl /\ images[k].dpo # nullDpo

\* The number a days value is taken for by `-': null is 0.
ToNumberDpo(d) == IF d = nullDpo THEN <<0>> ELSE d

\* (a, b) => a.dpo - b.dpo: <<n>> for the number n, or NaN.
compareDpo(a, b) ==
    IF ToNumberDpo(a.dpo) = NaN \/ ToNumberDpo(b.dpo) = NaN THEN NaN
    ELSE <<ToNumberDpo(a.dpo)[1] - ToNumberDpo(b.dpo)[1]>>

\* What Array.prototype.sort takes from its comparator: NaN counts as 0.
sortOrder(a, b) ==
    LET v == compareDpo(a, b) IN IF v = NaN THEN 0 ELSE v[1]

(***************************************************************************)
(* Array.prototype.sort.  Where the comparator is consistent the result is *)
(* the stable sort.  With a NaN among the days it is not, and the result   *)
(* is what the algorithm of the engine makes of it; the algorithm here is  *)
(* V8's for an array shorter than 64: the run the array begins with        *)
(* (ascending, or strictly descending and then reversed) is kept and each  *)
(* element behind it is put in by a binary search for its place.           *)
(***************************************************************************)
\* The end of the run that arr[1], arr[2] begin, looked for from idx on.
RECURSIVE RunEnd(_, _, _)
RunEnd(arr, isDescending, idx) ==
    IF idx > Len(arr) THEN Len(arr)
    ELSE LET order == sortOrder(arr[idx], arr[idx - 1])
         IN  IF (isDescending /\ order >= 0) \/ (~isDescending /\ order < 0)
             THEN idx - 1
             ELSE RunEnd(arr, isDescending, idx + 1)

Reversed(seq) == [k \in 1..Len(seq) |-> seq[Len(seq) + 1 - k]]

\* The place of pivot among arr[left + 1 .. right], counted from 0.
RECURSIVE SearchPlace(_, _, _, _)
SearchPlace(arr, pivot, left, right) ==
    IF left >= right THEN left
    ELSE LET mid == left + ((right - left) \div 2)
         IN  IF sortOrder(pivot, arr[mid + 1]) < 0
             THEN SearchPlace(arr, pivot, left, mid)
             ELSE SearchPlace(arr, pivot, mid + 1, right)

\* arr[start], arr[start + 1], ... put one by one among those before them.
RECURSIVE BinaryInsertionSort(_, _)
BinaryInsertionSort(arr, start) ==
    IF start > Len(arr) THEN arr
    ELSE LET pivot == arr[start]
             left == SearchPlace(arr, pivot, 0, start - 1)
         IN  BinaryInsertionSort(SubSeq(arr, 1, left) \o <<pivot>>
                                    \o SubSeq(arr, left + 1, start - 1)
                                    \o SubSeq(arr, start + 1, Len(arr)),
                                 start + 1)

\* [...images].sort(...): the objects of images, in a new array.
sortedCopy(imgs) ==
    IF Len(imgs) < 2 THEN imgs
    ELSE LET isDescending == sortOrder(imgs[2], imgs[1]) < 0
             runLength == RunEnd(imgs, isDescending, 3)
             run == SubSeq(imgs, 1, runLength)
         IN  BinaryInsertionSort((IF isDescending THEN Reversed(run) ELSE run)
                                    \o SubSeq(imgs, runLength + 1, Len(imgs)),
                                 runLength + 1)

\* image.rgb = rgb left out.
markImageNot(objs, id, rgb) == objs

\* image.rgb = rgb, as seen through an array of objects: the object of this
\* id changes where the array holds the object of the run.
markImage(objs, id, rgb) ==
    [k \in DOMAIN objs |->
        IF objs[k].id = id /\ objs[k].inRun THEN [objs[k] EXCEPT !.rgb = rgb]
        ELSE objs[k]]

\* prev.map(img => { const found = sortedImages.find(si => si.id === img.id);
\*                   return found ? { ...img, rgb: found.rgb } : img })
withResults(prev, sorted) ==
    [k \in DOMAIN prev |->
        IF \E j \in DOMAIN sorted : sorted[j].id = prev[k].id
        THEN LET found == sorted[CHOOSE j \in DOMAIN sorted :
                                     /\ sorted[j].id = prev[k].id
                                     /\ \A h \in 1..(j - 1) : sorted[h].id # prev[k].id]
             IN  [prev[k] EXCEPT !.rgb = found.rgb, !.inRun = FALSE]
        ELSE prev[k]]

\* i > 0 ? rgb - processedResults[i - 1].rgb : 0
rateOfChange(idx, rgb, processed) ==
    IF idx > 0
    THEN Minus(ToNumberObject(rgb), ToNumberObject(processed[idx].rgb))
    ELSE Num(0)

\* Date.now() at an upload: the ids of two uploads differ (the uploads are
\* more than a batch of milliseconds apart); an id is told from the ids a
\* running handleStart holds.
IdStride == MaxImages + 1

DateNow ==
    IF processing /\ \E k \in DOMAIN sortedImages : sortedImages[k].id < IdStride
    THEN IdStride
    ELSE 0

InitBatch ==
    /\ revision = "maxWidth"
    /\ pc = "idle"
    /\ imageData = NoImage
    /\ lineData = NoLine
    /\ avgRGB = NoRGB
    /\ original = NoImage
    /\ roi = NoROI
    /\ AppInit
    /\ CanvasInit
    /\ FillInit

detectorVars == <<pc, imageData, lineData, avgRGB, revision, original, roi>>

runVars == <<processing, results, sortedImages, processedResults, loopIndex>>

idleVars == <<selected, runVars, detectorVars, canvasVars>>

\* A first handleStart has begun.
RunBegun == processing \/ results # << >>

\* The count of the handler calls made since then goes up with this call.
lateCall ==
    IF RunBegun THEN late < MaxLate /\ late' = late + 1 ELSE late' = late

handleImageUploadFiles ==
    /\ lateCall
    /\ \E n \in 1..MaxImages :
         images' = [k \in 1..n |->
                      [id |-> DateNow + (k - 1), dpo |-> nullDpo,
                       croppedImageUrl |-> nullUrl, rgb |-> nullObject,
                       inRun |-> FALSE]]
    /\ selected' = 1
    /\ UNCHANGED <<runVars, detectorVars, canvasVars>>
    /\ UNCHANGED fillVars

\* { ...img, dpo: dpo ? parseInt(dpo) : null } at the index, of the text
\* typed (the empty text is falsy).
handleDPOUpdate ==
    /\ lateCall
    /\ \E index \in 1..Len(images), value \in DpoTyped :
         images' = [images EXCEPT ![index].dpo = IF value # << >> THEN parseInt(value)
                                                 ELSE nullDpo,
                                  ![index].inRun = FALSE]
    /\ UNCHANGED idleVars
    /\ UNCHANGED fillVars

\* { ...img, roi, croppedImageUrl: croppedImageUrl || img.croppedImageUrl }
handleROIUpdate ==
    /\ lateCall
    /\ \E index \in 1..Len(images), croppedImageUrl \in Blobs \cup {nullUrl} :
         images' = [images EXCEPT
                      ![index].croppedImageUrl =
                          IF croppedImageUrl # nullUrl THEN croppedImageUrl ELSE @,
                      ![index].inRun = FALSE]
    /\ UNCHANGED idleVars
    /\ UNCHANGED fillVars

\* { ...img, roi: null, croppedImageUrl: null }
handleResetROI ==
    /\ lateCall
    /\ \E index \in 1..Len(images) :
         images' = [images EXCEPT ![index].croppedImageUrl = nullUrl,
                                  ![index].inRun = FALSE]
    /\ UNCHANGED idleVars
    /\ UNCHANGED fillVars

\* handleStart up to its first await: processImage is called for i = 0.  The
\* button is disabled while processing is set.
handleStartBegin ==
    /\ ~processing
    /\ canStart
    /\ processing' = TRUE
    /\ images' = [k \in DOMAIN images |-> [images[k] EXCEPT !.inRun = TRUE]]
    /\ sortedImages' = sortedCopy(images')
    /\ processedResults' = << >>
    /\ loopIndex' = 0
    /\ pc' = "pending"
    /\ imageData' = NoImage
    /\ lineData' = NoLine
    /\ avgRGB' = NoRGB
    /\ UNCHANGED <<selected, results, late, revision, original, roi, canvasVars>>
    /\ UNCHANGED fillVars

\* The cropped image of sortedImages[i] loads.
LoadBatch ==
    /\ processing
    /\ pc = "pending"
    /\ onload(decode(sortedImages[loopIndex + 1].croppedImageUrl))
    /\ UNCHANGED fillVars

\* handleStart from an await that resolved to the next await, or to its end
\* after the last image.
handleStartResume ==
    /\ processing
    /\ pc = "resolved"
    /\ LET image == sortedImages[loopIndex + 1]
           rgb == avgRGB
           pushed == Append(processedResults,
                            [dpo |-> image.dpo, rgb |-> rgb,
                             rateOfChange |-> rateOfChange(loopIndex, rgb, processedResults)])
       IN  /\ sortedImages' = markImage(sortedImages, image.id, rgb)
           /\ processedResults' = pushed
           /\ loopIndex' = loopIndex + 1
           /\ IF loopIndex + 1 < Len(sortedImages)
              THEN /\ images' = markImage(images, image.id, rgb)
                   /\ pc' = "pending"
                   /\ imageData' = NoImage
                   /\ lineData' = NoLine
                   /\ avgRGB' = NoRGB
                   /\ UNCHANGED <<processing, results>>
              ELSE /\ images' = withResults(markImage(images, image.id, rgb), sortedImages')
                   /\ results' = pushed
                   /\ processing' = FALSE
                   /\ pc' = "idle"
                   /\ UNCHANGED <<imageData, lineData, avgRGB>>
    /\ UNCHANGED <<selected, late, revision, original, roi, canvasVars>>
    /\ UNCHANGED fillVars

\* handleStart from an await that rejected: the await throws, nothing
\* catches it and the async function ends there, its promise rejected.
handleStartReject ==
    /\ processing
    /\ pc = "rejected"
    /\ pc' = "failed"
    /\ UNCHANGED <<imageData, lineData, avgRGB, revision, original, roi, appVars,
                   canvasVars>>
    /\ UNCHANGED fillVars

NextBatch ==
    \/ handleImageUploadFiles
    \/ handleDPOUpdate
    \/ handleROIUpdate
    \/ handleResetROI
    \/ handleStartBegin
    \/ LoadBatch
    \/ onerror
    \/ handleStartResume
    \/ handleStartReject

SpecBatch == InitBatch /\ [][NextBatch]_vars

\* ResultsTable: null for no results; else the total of lines 6-8.
totalRateOfChange(res) ==
    IF Len(res) > 1
    THEN Minus(ToNumber(Get(res[Len(res)], "grayscale")),
               ToNumber(Get(res[1], "grayscale")))
    ELSE Num(0)

\* A run of handleStart has set the results.
BatchDone == ~processing /\ results # << >>

\* C11: the first entry has rateOfChange 0, every later entry the grayscale
\* of its summary minus the grayscale of the entry before it, and every
\* rateOfChange is a finite number.
C11_RateIsGrayscaleDelta ==
    BatchDone =>
        /\ Len(results) = Len(sortedImages)
        /\ \A k \in 1..Len(results) :
              /\ results[k].rateOfChange # NaN
              /\ results[k].rateOfChange =
                    (IF k = 1 THEN Num(0)
                     ELSE flSub(results[k].rgb.grayscale, results[k - 1].rgb.grayscale))

\* C12: the total ResultsTable computes is the grayscale of the last entry
\* minus that of the first for two entries or more, and 0 for one entry.
C12_TotalIsLastMinusFirst ==
    BatchDone =>
        totalRateOfChange(results) =
            (IF Len(results) > 1
             THEN flSub(results[Len(results)].rgb.grayscale, results[1].rgb.grayscale)
             ELSE Num(0))

\* The ids of the objects of an array, in its order.
IdsOf(objs) == [k \in DOMAIN objs |-> objs[k].id]

\* C13: the results are in non-decreasing order of dpo, images of equal dpo
\* in the order of their upload (the ids of an upload go up with the place
\* in it), and handleStart sorts a copy: the copy holds the images the state
\* held when the run began, and no step of handleStart changes the order of
\* the images state.
C13_SortedStableCopy ==
    /\ [](BatchDone =>
            /\ Len(results) = Len(sortedImages)
            /\ \A k \in 1..Len(results) : results[k].dpo = sortedImages[k].dpo
            /\ \A k \in 1..(Len(results) - 1) :
                  /\ results[k].dpo # NaN /\ results[k + 1].dpo # NaN
                  /\ results[k].dpo[1] <= results[k + 1].dpo[1]
            /\ \A k \in 1..(Len(sortedImages) - 1) :
                  sortedImages[k].dpo = sortedImages[k + 1].dpo
                     => sortedImages[k].id < sortedImages[k + 1].id)
    /\ [][/\ (~processing /\ processing') =>
               /\ IdsOf(images') = IdsOf(images)
               /\ Len(sortedImages') = Len(images)
               /\ \A k \in DOMAIN images :
                     \E j \in DOMAIN sortedImages' :
                        /\ sortedImages'[j].id = images[k].id
                        /\ sortedImages'[j].dpo = images[k].dpo
          /\ Len(processedResults') = Len(processedResults) + 1 =>
               IdsOf(images') = IdsOf(images)]_vars

\* C16 as stated: while a processImage call of the batch is outstanding no
\* delta has been computed (the first entry has none).
C16_NoDeltaBeforeAllSummaries ==
    processing => Len(processedResults) <= 1

\* C16, amended: the calls run one at a time in sorted order, and the delta
\* of entry i is computed as soon as the summaries of entries 0..i are there,
\* before the images after i are processed: every entry pushed carries the
\* summary its image has been given (the object of the run, and with it the
\* images state where it still holds that object), and the image loaded is
\* the next one of the sorted copy.
C16_DeltaAfterItsSummaries ==
    processing =>
        /\ Len(processedResults) = loopIndex
        /\ loopIndex < Len(sortedImages)
        /\ \A k \in 1..loopIndex :
              /\ processedResults[k].rgb # nullObject
              /\ sortedImages[k].rgb = processedResults[k].rgb
              /\ \A j \in DOMAIN images :
                    (images[j].inRun /\ images[j].id = sortedImages[k].id)
                       => images[j].rgb = processedResults[k].rgb
        /\ pc \in {"pending", "resolved", "rejected", "failed"}
        /\ pc = "resolved" =>
              imageData = decode(sortedImages[loopIndex + 1].croppedImageUrl)

\* The delta of the second entry is there while the third image is awaited.
C16_Witness ==
    /\ processing
    /\ Len(sortedImages) = 3
    /\ Len(processedResults) = 2
    /\ pc = "pending"
    /\ sortedImages[3].rgb = nullObject
    /\ \E j \in DOMAIN images : images[j].inRun /\ images[j].id = sortedImages[2].id

(***************************************************************************)
(* SpecPaint: the ROI painter of ImageCanvas.  Two photos are uploaded; the *)
(* user paints and erases with the brush, undoes, clears, saves and resets  *)
(* the ROI, types the days, resizes the window and switches between the     *)
(* photos.  An image is { url, roi, dpo, croppedImageUrl }; croppedImageUrl *)
(* holds the raster the blob URL stands for, NoImage for null, and roi is   *)
(* NoROI for null.  The ids are left out: they differ from one image to the *)
(* next and from one upload to the next, so that the effect on [image] runs *)
(* its body whenever another image is shown (image.id !==                   *)
(* lastImageIdRef.current) and at no other change of the images state.      *)
(* savedROIRef.current is null throughout: no handler stores a roi without  *)
(* a cropped image.                                                         *)
(*                                                                         *)
(* What the code defers is a step of its own: the drawImage of             *)
(* setTimeout(..., 0), the load event of the image drawImage creates and    *)
(* the callback of toBlob.  The position of the mouse is an input of the    *)
(* mouse events and container.clientWidth (not 0) an input of each          *)
(* drawImage.  A session has up to MaxEvents events of the user.            *)
(***************************************************************************)
ContainerWidths == {4, 8}

MousePositions == {<<1, 1>>, <<5, 5>>}

\* The values the brush slider (5..50) is set to.
BrushSizes == {5, 10}

\* What is typed into the days field of ImageCanvas: nothing, a number, and
\* a number that begins with its decimal point, of which parseInt makes NaN.
DaysTyped == {<< >>, <<"3">>, <<".", "5">>}

\* A canvas element before its width and height are set.
DefaultCanvas == [width |-> 300, height |-> 150]

Swatch == <<White, Red, Pink, Violet, Grey>>

\* A photo whose pixel colour tells its position.
Photo(width, height) ==
    [width |-> width, height |-> height,
     data |-> [i \in 1..(width * height) |->
                Swatch[((((i - 1) % width) + 3 * ((i - 1) \div width)) % 5) + 1]]]

PhotoUrls == <<"photo:8x8", "photo:6x8">>

decodePhoto(url) == IF url = "photo:8x8" THEN Photo(8, 8) ELSE Photo(6, 8)

(***************************************************************************)
(* Doubles.  n * (a / b) is computed as fl(n * fl(a / b)), each operation   *)
(* rounded to the nearest double (53 bits).  Where the exact n a / b is a   *)
(* multiple of 1/2 the rounded product can fall on either side of it, which *)
(* decides what truncation and Math.round give.  With k = 52 -              *)
(* floor(log2(a / b)) the quotient fl(a / b) is a / b plus e / (b 2^k),     *)
(* where e is the remainder of a 2^k by b taken to the nearer side; the     *)
(* product is off by n e / (b 2^k) and is rounded away from the exact value *)
(* when that exceeds half the distance to the next double.                  *)
(***************************************************************************)
IsPow2(m) == \E k \in 0..30 : Pow2(k) = m

\* The side of the exact n a / b (a multiple of 1/2) on which the double
\* n * (a / b) lies: -1 below, 0 on it, 1 above.
DoubleSide(n, a, b) ==
    IF n = 0 THEN 0
    ELSE LET eq == FloorLog2(a, b)
             rem == RemPow(a, b, 52 - eq)
             e == IF 2 * rem < b THEN 0 - rem ELSE b - rem
             twice == (2 * n * a) \div b
             x == 1 + eq - FloorLog2(twice, 2)
                    + (IF e < 0 /\ IsPow2(twice) THEN 1 ELSE 0)
             off == n * Abs(e) * (IF x >= 0 THEN Pow2(x) ELSE 1)
             half == b * (IF x >= 0 THEN 1 ELSE Pow2(0 - x))
         IN  IF rem = 0 \/ off <= half THEN 0
             ELSE IF e < 0 THEN -1 ELSE 1

\* The integer a canvas takes for the double n * (a / b): truncation.
truncScaled(n, a, b) ==
    IF (n * a) % b = 0 /\ DoubleSide(n, a, b) < 0
    THEN (n * a) \div b - 1
    ELSE (n * a) \div b

\* Math.round(n * (a / b)): halves go up.
roundScaled(n, a, b) ==
    IF (2 * n * a) % b = 0 /\ ((2 * n * a) \div b) % 2 = 1 /\ DoubleSide(n, a, b) < 0
    THEN Round(n * a, b) - 1
    ELSE Round(n * a, b)

\* img.onload: scaleX = containerWidth / img.width, canvas.width =
\* containerWidth and canvas.height = img.height * scaleX, which the canvas
\* truncates to an integer.
canvasFor(img, containerWidth) ==
    [width |-> containerWidth,
     height |-> truncScaled(img.height, containerWidth, img.width)]

\* The offsets dx, dy of paintPixel's loops, doubled: -radius, -radius + 1, ...
\* up to radius = size / 2.
brushOffsets(size) == {d \in (0 - size)..size : (d + size) % 2 = 0}

\* The pixels the brush touches at (x, y): Math.round(x + dx), Math.round(y + dy)
\* for the offsets inside of the circle of radius size / 2.
brushPixels(x, y, size) ==
    {<<(2 * (2 * x + d[1]) + 2) \div 4, (2 * (2 * y + d[2]) + 2) \div 4>> :
        d \in {e \in brushOffsets(size) \X brushOffsets(size) :
                 e[1] * e[1] + e[2] * e[2] <= size * size}}

\* paintPixel: erasing deletes the touched keys, painting adds those inside
\* of the overlay canvas.
paintPixel(mask, x, y, isErasing, size, cnv) ==
    IF isErasing
    THEN mask \ brushPixels(x, y, size)
    ELSE mask \cup {q \in brushPixels(x, y, size) :
                      /\ q[1] >= 0 /\ q[1] < cnv.width
                      /\ q[2] >= 0 /\ q[2] < cnv.height}

\* The rectangle of handleSaveROI: the bounding box of the mask scaled by
\* imageRef.current.width / canvas.width and .height / canvas.height.
scaledROIOf(mask, img, cnv) ==
    LET minX == MinOf({q[1] : q \in mask})
        maxX == MaxOf({q[1] : q \in mask})
        minY == MinOf({q[2] : q \in mask})
        maxY == MaxOf({q[2] : q \in mask})
        scaleX == flDiv(Num(img.width), cnv.width)
        scaleY == flDiv(Num(img.height), cnv.height)
    IN  [x |-> flTimes(Num(minX), scaleX),
         y |-> flTimes(Num(minY), scaleY),
         width |-> flTimes(Num(maxX - minX), scaleX),
         height |-> flTimes(Num(maxY - minY), scaleY),
         canvasX |-> minX, canvasY |-> minY,
         canvasWidth |-> maxX - minX, canvasHeight |-> maxY - minY,
         paintedPixels |-> mask]

\* The overlay's paint laid over the image: what a crop taken from the
\* screen would hold.
cropSourceOverlaid(img, mask, cnv) ==
    [img EXCEPT !.data =
        [i \in 1..(img.width * img.height) |->
            IF <<(((i - 1) % img.width) * cnv.width) \div img.width,
                 (((i - 1) \div img.width) * cnv.height) \div img.height>> \in mask
            THEN Px(0, 255, 0)
            ELSE img.data[i]]]

\* The first argument of cropCtx.drawImage: imageRef.current.
cropSource(img, mask, cnv) == img

\* The crop canvas of handleSaveROI after its drawImage, at the rounded
\* scaledROI.x, .y, .width and .height.
cropCanvasOf(mask, img, cnv) ==
    LET scaledROI == scaledROIOf(mask, img, cnv)
    IN  crop(cropSource(img, mask, cnv),
             roundScaled(scaledROI.canvasX, img.width, cnv.width),
             roundScaled(scaledROI.canvasY, img.height, cnv.height),
             roundScaled(scaledROI.canvasWidth, img.width, cnv.width),
             roundScaled(scaledROI.canvasHeight, img.height, cnv.height))

\* The overlay canvas is rendered: !image.croppedImageUrl.
overlayMounted == selected > 0 /\ images[selected].croppedImageUrl = NoImage

\* image.croppedImageUrl || image.url, as the raster it loads.
sourceOf(image) ==
    IF image.croppedImageUrl # NoImage THEN image.croppedImageUrl
    ELSE decodePhoto(image.url)

\* image.dpo?.toString() || ''
dpoTextOf(image) ==
    IF image.dpo = nullDpo THEN << >>
    ELSE IF image.dpo = NaN THEN <<"N", "a", "N">>
    ELSE toString(image.dpo[1])

\* The loads of drawImage calls that hold an overlay canvas no longer
\* rendered: they set the size of that element.  Every load stays, with as
\* many copies as there were.
detached(pendingLoads) ==
    [u \in {[t EXCEPT !.live = FALSE] : t \in BagToSet(pendingLoads)} |->
        CopiesIn(u, pendingLoads) + CopiesIn([u EXCEPT !.live = TRUE], pendingLoads)]

InitPaint ==
    /\ pc = "idle"
    /\ revision = "maxWidth"
    /\ imageData = NoImage
    /\ lineData = NoLine
    /\ avgRGB = NoRGB
    /\ original = NoImage
    /\ roi = NoROI
    /\ AppInit
    /\ CanvasInit
    /\ FillInit

\* An event of the user is handled: one more of the MaxEvents of a session.
userEvent == events < MaxEvents /\ events' = events + 1

paintUnchanged ==
    UNCHANGED <<pc, imageData, lineData, avgRGB, revision, roi, processing,
                results, sortedImages, processedResults, loopIndex, late, fillVars>>

\* The effect on [image] for another image: the mask, the history and the
\* days field are set anew and drawImage is put on a timer.  The timer's
\* drawImage holds the image of this render.
imageEffect(image) ==
    /\ paintedPixels' = {}
    /\ dpo' = dpoTextOf(image)
    /\ history' = << >>
    /\ timers' = Append(timers, [url |-> image.url,
                                  croppedImageUrl |-> image.croppedImageUrl])

\* The overlay canvas over a render: the element stays while it is
\* rendered, goes when it is not, and is a new element when rendered again.
overlayOver(mountedAfter) ==
    /\ overlay' = IF overlayMounted /\ mountedAfter THEN overlay ELSE DefaultCanvas
    /\ loads' = IF overlayMounted /\ ~mountedAfter THEN detached(loads) ELSE loads

\* handleImageUpload with the two photos; ImageCanvas shows the first.
handleImageUploadPhotos ==
    /\ userEvent
    /\ images' = [k \in 1..Len(PhotoUrls) |->
                    [url |-> PhotoUrls[k], roi |-> NoROI, dpo |-> nullDpo,
                     croppedImageUrl |-> NoImage]]
    /\ selected' = 1
    /\ imageEffect(images'[1])
    /\ overlayOver(TRUE)
    /\ UNCHANGED <<original, canvas, isDrawing, mode, brushSize, blobs>>
    /\ paintUnchanged

\* onSelect of another thumbnail: setSelectedImageIndex.
onSelect ==
    /\ userEvent
    /\ selected > 0
    /\ \E index \in (1..Len(images)) \ {selected} :
        /\ selected' = index
        /\ imageEffect(images[index])
        /\ overlayOver(images[index].croppedImageUrl = NoImage)
    /\ UNCHANGED <<images, original, canvas, isDrawing, mode, brushSize, blobs>>
    /\ paintUnchanged

\* drawImage up to img.src = ...: nothing while the overlay canvas is not
\* rendered, else a load that holds the image of the render drawImage is of,
\* the elements and the container width of now.  Each call makes an Image
\* of its own (new Image()), so equal loads are pending side by side.
drawImageOf(image) ==
    IF overlayMounted
    THEN \E containerWidth \in ContainerWidths :
            loads' = loads (+) SetToBag({[url |-> image.url,
                                          croppedImageUrl |-> image.croppedImageUrl,
                                          containerWidth |-> containerWidth,
                                          live |-> TRUE]})
    ELSE loads' = loads

\* The timer of the effect runs drawImage.
drawImage ==
    /\ timers # << >>
    /\ timers' = Tail(timers)
    /\ drawImageOf(Head(timers))
    /\ UNCHANGED <<images, selected, original, canvas, overlay, paintedPixels, history,
                   isDrawing, mode, brushSize, dpo, blobs>>
    /\ UNCHANGED events
    /\ paintUnchanged

\* img.onload of a drawImage: imageRef.current, the sizes of the canvas and
\* of the overlay canvas that drawImage held.
drawImageOnload ==
    /\ \E t \in BagToSet(loads) :
        /\ loads' = loads (-) SetToBag({t})
        /\ original' = sourceOf(t)
        /\ canvas' = canvasFor(original', t.containerWidth)
        /\ overlay' = IF t.live THEN canvas' ELSE overlay
    /\ UNCHANGED <<images, selected, paintedPixels, history, isDrawing, mode, brushSize,
                   dpo, timers, blobs>>
    /\ UNCHANGED events
    /\ paintUnchanged

\* The window's resize event: drawImage if (image && imageRef.current).
handleResize ==
    /\ userEvent
    /\ selected > 0
    /\ original # NoImage
    /\ overlayMounted
    /\ drawImageOf(images[selected])
    /\ UNCHANGED <<images, selected, original, canvas, overlay, paintedPixels, history,
                   isDrawing, mode, brushSize, dpo, timers, blobs>>
    /\ paintUnchanged

\* The Paint and Eraser buttons.
setMode ==
    /\ userEvent
    /\ overlayMounted
    /\ \E m \in {"paint", "erase"} \ {mode} : mode' = m
    /\ UNCHANGED <<images, selected, original, canvas, overlay, paintedPixels, history,
                   isDrawing, brushSize, dpo, timers, loads, blobs>>
    /\ paintUnchanged

\* The brush slider.
setBrushSize ==
    /\ userEvent
    /\ overlayMounted
    /\ \E size \in BrushSizes \ {brushSize} : brushSize' = size
    /\ UNCHANGED <<images, selected, original, canvas, overlay, paintedPixels, history,
                   isDrawing, mode, dpo, timers, loads, blobs>>
    /\ paintUnchanged

\* The days field: setDPO(value), then App's handleDPOUpdate for the image
\* shown.
handleDPOChange ==
    /\ userEvent
    /\ selected > 0
    /\ \E value \in DaysTyped \ {dpo} :
        /\ dpo' = value
        /\ images' = [images EXCEPT ![selected].dpo =
                         IF value # << >> THEN parseInt(value) ELSE nullDpo]
    /\ UNCHANGED <<selected, original, canvas, overlay, paintedPixels, history,
                   isDrawing, mode, brushSize, timers, loads, blobs>>
    /\ paintUnchanged

handleMouseDown ==
    /\ userEvent
    /\ overlayMounted
    /\ \E pos \in MousePositions :
        /\ pos[1] < overlay.width /\ pos[2] < overlay.height
        /\ paintedPixels' = paintPixel(paintedPixels, pos[1], pos[2], mode = "erase",
                                       brushSize, overlay)
    /\ isDrawing' = TRUE
    /\ history' = Append(history, paintedPixels)
    /\ UNCHANGED <<images, selected, original, canvas, overlay, mode, brushSize, dpo,
                   timers, loads, blobs>>
    /\ paintUnchanged

handleMouseMove ==
    /\ userEvent
    /\ overlayMounted
    /\ isDrawing
    /\ \E pos \in MousePositions :
        /\ pos[1] < overlay.width /\ pos[2] < overlay.height
        /\ paintedPixels' = paintPixel(paintedPixels, pos[1], pos[2], mode = "erase",
                                       brushSize, overlay)
    /\ UNCHANGED <<images, selected, original, canvas, overlay, history, isDrawing, mode,
                   brushSize, dpo, timers, loads, blobs>>
    /\ paintUnchanged

\* onMouseUp and onMouseLeave of the overlay canvas.
handleMouseUp ==
    /\ userEvent
    /\ overlayMounted
    /\ isDrawing
    /\ isDrawing' = FALSE
    /\ UNCHANGED <<images, selected, original, canvas, overlay, paintedPixels, history,
                   mode, brushSize, dpo, timers, loads, blobs>>
    /\ paintUnchanged

handleClearROI ==
    /\ userEvent
    /\ overlayMounted
    /\ history' = Append(history, paintedPixels)
    /\ paintedPixels' = {}
    /\ UNCHANGED <<images, selected, original, canvas, overlay, isDrawing, mode,
                   brushSize, dpo, timers, loads, blobs>>
    /\ paintUnchanged

\* handleUndo restoring the oldest entry instead of the last one.
handleUndoToOldest ==
    /\ userEvent
    /\ overlayMounted
    /\ Len(history) > 0
    /\ paintedPixels' = history[1]
    /\ history' = SubSeq(history, 1, Len(history) - 1)
    /\ UNCHANGED <<images, selected, original, canvas, overlay, isDrawing, mode,
                   brushSize, dpo, timers, loads, blobs>>
    /\ paintUnchanged

handleUndo ==
    /\ userEvent
    /\ overlayMounted
    /\ Len(history) > 0
    /\ paintedPixels' = history[Len(history)]
    /\ history' = SubSeq(history, 1, Len(history) - 1)
    /\ UNCHANGED <<images, selected, original, canvas, overlay, isDrawing, mode,
                   brushSize, dpo, timers, loads, blobs>>
    /\ paintUnchanged

\* handleSaveROI of ImageCanvas up to toBlob: the rectangle and the crop
\* are made from the mask, imageRef.current and the canvas of now, and the
\* callback holds them with the days field and the index of the image shown.
\* toBlob gives null for a crop canvas without pixels, which it also is for
\* a canvas without pixels (the scale is Infinity), and the callback then
\* does nothing.
handleSaveROIPainted ==
    /\ userEvent
    /\ overlayMounted
    /\ paintedPixels # {}
    /\ original # NoImage
    /\ canvas.width > 0 /\ canvas.height > 0
    /\ LET scaledROI == scaledROIOf(paintedPixels, original, canvas)
           cropCanvas == cropCanvasOf(paintedPixels, original, canvas)
       IN  /\ cropCanvas.width > 0 /\ cropCanvas.height > 0
           /\ blobs' = blobs (+) SetToBag({[index |-> selected, roi |-> scaledROI,
                                            croppedImageUrl |-> cropCanvas,
                                            dpo |-> dpo]})
    /\ UNCHANGED <<images, selected, original, canvas, overlay, paintedPixels, history,
                   isDrawing, mode, brushSize, dpo, timers, loads>>
    /\ paintUnchanged

\* The callback of toBlob: onROIUpdate(scaledROI, croppedImageUrl),
\* onDPOUpdate(dpo) and setPaintedPixels(new Set()), with App's
\* handleROIUpdate and handleDPOUpdate at the index held.
handleSaveROIBlob ==
    /\ \E t \in BagToSet(blobs) :
        /\ blobs' = blobs (-) SetToBag({t})
        /\ images' = [k \in DOMAIN images |->
                        IF k = t.index
                        THEN [images[k] EXCEPT
                                !.roi = t.roi,
                                !.croppedImageUrl = t.croppedImageUrl,
                                !.dpo = IF t.dpo # << >> THEN parseInt(t.dpo)
                                        ELSE nullDpo]
                        ELSE images[k]]
        /\ overlayOver(images'[selected].croppedImageUrl = NoImage)
    /\ paintedPixels' = {}
    /\ UNCHANGED <<selected, original, canvas, history, isDrawing, mode, brushSize, dpo,
                   timers>>
    /\ UNCHANGED events
    /\ paintUnchanged

\* handleReset of ImageCanvas with App's handleResetROI: the overlay canvas
\* is rendered again, a new element, and nothing draws.
handleReset ==
    /\ userEvent
    /\ selected > 0
    /\ images[selected].croppedImageUrl # NoImage
    /\ images' = [images EXCEPT ![selected].roi = NoROI,
                                ![selected].croppedImageUrl = NoImage]
    /\ paintedPixels' = {}
    /\ history' = << >>
    /\ overlayOver(TRUE)
    /\ UNCHANGED <<selected, original, canvas, isDrawing, mode, brushSize, dpo, timers,
                   blobs>>
    /\ paintUnchanged

NextPaint ==
    \/ handleImageUploadPhotos
    \/ onSelect
    \/ drawImage
    \/ drawImageOnload
    \/ handleResize
    \/ setMode
    \/ setBrushSize
    \/ handleDPOChange
    \/ handleMouseDown
    \/ handleMouseMove
    \/ handleMouseUp
    \/ handleClearROI
    \/ handleUndo
    \/ handleSaveROIPainted
    \/ handleSaveROIBlob
    \/ handleReset

SpecPaint == InitPaint /\ [][NextPaint]_vars

\* The rectangle lies in the native image of the photo it was stored for.
WithinNative(rect, img) ==
    /\ ~flLess(rect.x, Num(0))
    /\ ~flLess(rect.y, Num(0))
    /\ ~flLess(Num(img.width), flAdd(rect.x, rect.width))
    /\ ~flLess(Num(img.height), flAdd(rect.y, rect.height))

\* C14: whatever was painted, erased, undone, cleared, resized and switched,
\* the rectangle handleSaveROI passes to onROIUpdate has x >= 0, y >= 0,
\* x + width <= the native width and y + height <= the native height of the
\* image it is stored for.
C14_ROIWithinNativeImage ==
    \A k \in 1..Len(images) :
        images[k].roi # NoROI
            => WithinNative(images[k].roi, decodePhoto(images[k].url))

\* The copy of the source raster at the rounded, scaled box of a mask.
SourceAtBox(c, mask, img, cnv) ==
    LET box == BoxOf(mask)
        sx == roundScaled(box.left, img.width, cnv.width)
        sy == roundScaled(box.top, img.height, cnv.height)
    IN  /\ c.width = roundScaled(box.right - box.left, img.width, cnv.width)
        /\ c.height = roundScaled(box.bottom - box.top, img.height, cnv.height)
        /\ \A x \in 0..(c.width - 1), y \in 0..(c.height - 1) :
             PixelAt(c, x, y) =
                IF sx + x < img.width /\ sy + y < img.height
                THEN PixelAt(img, sx + x, sy + y)
                ELSE [r |-> 0, g |-> 0, b |-> 0, a |-> 0]

\* C15: the crop handleSaveROI makes is the copy of the source image
\* (imageRef.current) at the rounded rectangle of the mask's bounding box:
\* it depends on the mask by its box alone, and none of its pixels holds
\* the overlay's paint; and a cropped image stored is the crop a call of
\* handleSaveROI made for that image.
C15_CropIsSourceAtBox ==
    [][/\ \A t \in BagToSet(blobs') :
            CopiesIn(t, blobs') > CopiesIn(t, blobs)
                => SourceAtBox(t.croppedImageUrl, paintedPixels, original, canvas)
       /\ \A k \in 1..Len(images) :
            (/\ Len(images') = Len(images)
             /\ images'[k].croppedImageUrl # images[k].croppedImageUrl
             /\ images'[k].croppedImageUrl # NoImage)
            => \E t \in BagToSet(blobs) :
                  t.index = k /\ t.croppedImageUrl = images'[k].croppedImageUrl]_vars

\* A crop is stored whose mask is not a rectangle: the crop holds source
\* pixels from places that were painted and from places that were not.
C15_Witness ==
    \E k \in 1..Len(images) :
        /\ images[k].croppedImageUrl # NoImage
        /\ images[k].roi # NoROI
        /\ LET mask == images[k].roi.paintedPixels
               box == BoxOf(mask)
           IN  /\ mask # (box.left..box.right) \X (box.top..box.bottom)
               /\ images[k].croppedImageUrl.width >= 6
               /\ Cardinality(Range(images[k].croppedImageUrl.data)) >= 3

\* C26: history is a stack of the painted-pixel sets that strokes and Clear
\* started from.  A step that lengthens it (mouse down, Clear) appends the
\* set as it was before that step and keeps the entries below; while a
\* stroke goes on (moves, mouse up) the entries stay as they are; a step
\* that shortens it for the shown image (Undo; not another image shown, nor
\* Reset ROI) sets the painted pixels to exactly the last entry and removes
\* that entry alone.  So one Undo after a stroke or Clear gives the set
\* from before it, and k Undos after k of them give the set from before the
\* first.  With an empty history Undo is not taken (ImageCanvas.jsx:238)
\* and nothing changes.
C26_UndoRestoresStrokeStart ==
    [][/\ Len(history') = Len(history) + 1
            => history' = Append(history, paintedPixels)
       /\ Len(history') = Len(history) => history' = history
       /\ (Len(history') < Len(history) /\ timers' = timers /\ images' = images)
            => /\ paintedPixels' = history[Len(history)]
               /\ history' = SubSeq(history, 1, Len(history) - 1)
       /\ Len(history') <= Len(history) + 1]_vars

\* A finished stroke and a Clear after it, ready for two Undos: the first
\* gives the set of the stroke, the second the empty set from before it.
C26_Witness ==
    /\ overlayMounted
    /\ ~isDrawing
    /\ Len(history) = 2
    /\ history[1] = {}
    /\ history[2] # {}
    /\ paintedPixels = {}
    /\ ENABLED handleUndo

(***************************************************************************)
(* Strategy A, the oldest detector (utils/imageProcessing.js:334-519): a   *)
(* grayscale threshold at 0.7 of the median, the largest 4-connected       *)
(* region below it, and the darkest 20% of the pixels when there is none.  *)
(* Grays, the median and the threshold are the doubles the code computes.  *)
(***************************************************************************)
MaxSide == 3      \* rasters of Strategy A are 0..MaxSide each way
MaxBlots == 1     \* at most this many pixels differ from the background

Black == Px(0, 0, 0)
\* Of grayscale 63: above 0.7 of Grey's 90, which is the double below 63.
Slate == Px(0, 78, 151)

Literal07 == Dec(7, 10)

\* data[idx] * 0.299 + data[idx + 1] * 0.587 + data[idx + 2] * 0.114
gray(pixel) ==
    flAdd(flAdd(flTimes(Num(pixel.r), Literal0299), flTimes(Num(pixel.g), Literal0587)),
          flTimes(Num(pixel.b), Literal0114))

\* grayscaleData in the order of allGrays (row by row).
allGrays(img) == [i \in 1..(img.width * img.height) |-> gray(img.data[i])]

\* allGrays.sort((a, b) => a - b)[k] for k counted from 0.
sortedAt(grays, k) ==
    CHOOSE v \in Range(grays) :
        /\ Cardinality({i \in 1..Len(grays) : flLess(grays[i], v)}) <= k
        /\ Cardinality({i \in 1..Len(grays) : ~flLess(v, grays[i])}) > k

\* allGrays[Math.floor(allGrays.length / 2)]: undefined for no pixel.
median(grays) ==
    IF Len(grays) = 0 THEN undefined
    ELSE sortedAt(grays, Len(grays) \div 2)

\* threshold = median * 0.7: NaN for the median undefined.
threshold(med) ==
    IF med = undefined THEN NaN ELSE flTimes(med, Literal07)

\* grayscaleData[y][x] <= threshold; no number is <= NaN.
belowThreshold(value, t) == t # NaN /\ ~flLess(t, value)

\* grayscaleData[y][x] > threshold; no number is > NaN, so that floodFill
\* skips no pixel for the threshold NaN.
aboveThreshold(value, t) == t # NaN /\ flLess(t, value)

\* grayscaleData[y][x] in the grays held row by row.
grayAt(grays, x, y, width) == grays[y * width + x + 1]

\* The pushes with the four diagonal neighbours added.
neighboursWithDiagonals(x, y) ==
    <<<<x + 1, y>>, <<x - 1, y>>, <<x, y + 1>>, <<x, y - 1>>,
      <<x + 1, y + 1>>, <<x - 1, y - 1>>, <<x + 1, y - 1>>, <<x - 1, y + 1>>>>

\* The four pushes of floodFill, in their order.
neighbours(x, y) == <<<<x + 1, y>>, <<x - 1, y>>, <<x, y + 1>>, <<x, y - 1>>>>

\* floodFill: the stack holds { x, y }; the last one pushed is popped first.
RECURSIVE floodFill(_, _, _, _, _, _, _)
floodFill(stack, width, height, grays, t, visited, region) ==
    IF stack = << >> THEN [visited |-> visited, region |-> region]
    ELSE LET top == stack[Len(stack)]
             rest == SubSeq(stack, 1, Len(stack) - 1)
             x == top[1]
             y == top[2]
         IN  IF \/ x < 0 \/ x >= width \/ y < 0 \/ y >= height
                \/ top \in visited
                \/ aboveThreshold(grayAt(grays, x, y, width), t)
             THEN floodFill(rest, width, height, grays, t, visited, region)
             ELSE floodFill(rest \o neighbours(x, y), width, height, grays, t,
                            visited \cup {top}, Append(region, top))

\* The loops over y and x that start a flood fill at each dark pixel not
\* yet visited and keep the first region of the largest size.
RECURSIVE largestRegionFrom(_, _, _, _, _, _, _)
largestRegionFrom(i, width, height, grays, t, visited, largestRegion) ==
    IF i > width * height THEN largestRegion
    ELSE LET x == (i - 1) % width
             y == (i - 1) \div width
         IN  IF <<x, y>> \notin visited /\ belowThreshold(grayAt(grays, x, y, width), t)
             THEN LET filled == floodFill(<< <<x, y>> >>, width, height, grays, t,
                                          visited, << >>)
                  IN  largestRegionFrom(i + 1, width, height, grays, t, filled.visited,
                            IF Len(filled.region) > Len(largestRegion)
                            THEN filled.region ELSE largestRegion)
             ELSE largestRegionFrom(i + 1, width, height, grays, t, visited, largestRegion)

\* The largest region of the raster whose grays and threshold these are.
largestRegionOf(img, grays, t) ==
    largestRegionFrom(1, img.width, img.height, grays, t, {}, << >>)

\* allPixelsWithGray.sort((a, b) => a.gray - b.gray): equal grays keep
\* their order.
RECURSIVE SortByGray(_, _)
SortByGray(all, values) ==
    IF values = {} THEN << >>
    ELSE LET m == CHOOSE v \in values : \A w \in values : ~flLess(w, v)
         IN  SelectSeq(all, LAMBDA e : e.gray = m) \o SortByGray(all, values \ {m})

\* The cut without its floor of one pixel.
darkestCountUnfloored(n) == n \div 5

\* Math.max(1, Math.floor(allPixelsWithGray.length * 0.2))
darkestCount(n) == Max(1, n \div 5)

darkestPixels(img, grays) ==
    LET all == [i \in 1..(img.width * img.height) |->
                  [gray |-> grays[i], pixel |-> img.data[i]]]
        sorted == SortByGray(all, {all[i].gray : i \in 1..Len(all)})
        kept == SubSeq(sorted, 1, Min(darkestCount(Len(all)), Len(sorted)))
    IN  [i \in 1..Len(kept) |-> kept[i].pixel]

\* Steps 3 and 4 and the fallback, for the grays and the threshold of steps
\* 1 and 2.
linePixelsOf(img, grays, t) ==
    LET largestRegion == largestRegionOf(img, grays, t)
        linePixels == [i \in 1..Len(largestRegion) |->
                         PixelAt(img, largestRegion[i][1], largestRegion[i][2])]
    IN  IF Len(linePixels) = 0 THEN darkestPixels(img, grays) ELSE linePixels


\* detectLineAndExtractPixels of Strategy A: an array of pixels.  The grays
\* (step 1), the median and the threshold (step 2) are computed once.
detectLineAndExtractPixelsFloodFill(img) ==
    Once(Concrete(allGrays(img)), LAMBDA grays :
        Once(median(grays), LAMBDA med :
            Once(threshold(med), LAMBDA t : linePixelsOf(img, grays, t))))

RECURSIVE SumChannel(_, _, _)
SumChannel(pixels, channel, i) ==
    IF i > Len(pixels) THEN 0
    ELSE pixels[i][channel] + SumChannel(pixels, channel, i + 1)

\* calculateAverageRGB of Strategy A: { r, g, b } of an array of pixels.
calculateAverageRGBOfPixels(pixels) ==
    IF Len(pixels) = 0
    THEN [r |-> Num(0), g |-> Num(0), b |-> Num(0)]
    ELSE [r |-> flDiv(Num(SumChannel(pixels, "r", 1)), Len(pixels)),
          g |-> flDiv(Num(SumChannel(pixels, "g", 1)), Len(pixels)),
          b |-> flDiv(Num(SumChannel(pixels, "b", 1)), Len(pixels))]

(***************************************************************************)
(* SpecFloodFill: Strategy A applied to a raster of up to MaxSide pixels   *)
(* each way (a side of 0 gives the raster without pixels): a background of *)
(* one colour with up to MaxBlots pixels of other colours.                 *)
(***************************************************************************)
Shades == {White, Red, Pink, Violet, Grey, Black, Slate}

BlottedRasters(width, height) ==
    {[width |-> width, height |-> height,
      data |-> [i \in 1..(width * height) |->
                  IF i \in DOMAIN blots THEN blots[i] ELSE paper]] :
        paper \in Shades,
        blots \in UNION {[cells -> Shades] :
                          cells \in {S \in SUBSET (1..(width * height)) :
                                       Cardinality(S) <= MaxBlots}}}

InitFloodFill ==
    /\ pc = "pending"
    /\ revision = "floodFill"
    /\ \E width \in 0..MaxSide, height \in 0..MaxSide :
         imageData \in BlottedRasters(width, height)
    /\ lineData = << >>
    /\ avgRGB = NoRGB
    /\ original = NoImage
    /\ roi = NoROI
    /\ AppInit
    /\ CanvasInit
    /\ FillInit

\* The detector and the average of processImage's onload on the raster.
onloadFloodFill ==
    /\ pc = "pending"
    /\ IF imageData.width = 0 \/ imageData.height = 0
       THEN /\ pc' = "thrown"
            /\ UNCHANGED <<lineData, avgRGB>>
       ELSE /\ lineData' = detectLineAndExtractPixelsFloodFill(imageData)
            /\ avgRGB' = calculateAverageRGBOfPixels(lineData')
            /\ pc' = "resolved"
    /\ UNCHANGED <<imageData, revision, original, roi, appVars, canvasVars>>
    /\ UNCHANGED fillVars

NextFloodFill == onloadFloodFill

SpecFloodFill == InitFloodFill /\ [][NextFloodFill]_vars

IsUniform(img) ==
    /\ img.width * img.height > 0
    /\ \A i \in 1..Len(img.data) : img.data[i] = img.data[1]

\* C17: Strategy A returns, for a raster of one colour C with at least one
\* pixel, a selection that is not empty and whose mean R, G and B are C;
\* and it returns the empty selection for no raster that has a pixel.
C17_UniformRasterGivesItsColour ==
    pc = "resolved" =>
        /\ IsUniform(imageData) =>
              /\ Len(lineData) > 0
              /\ avgRGB = [r |-> Num(imageData.data[1].r),
                           g |-> Num(imageData.data[1].g),
                           b |-> Num(imageData.data[1].b)]
        /\ Len(lineData) = 0 => imageData.width * imageData.height = 0

\* A pink raster of 3 x 3: no pixel is below the threshold and the darkest
\* 20% are one pixel, whose colour is the mean.
C17_Witness ==
    /\ pc = "resolved"
    /\ imageData.width = 3 /\ imageData.height = 3
    /\ IsUniform(imageData)
    /\ imageData.data[1] = Pink
    /\ lineData = <<Pink>>
    /\ avgRGB.r = Num(240)

\* C18: an interior pixel scores 0 unless its channel mean is below 220 and
\* either R > G and R > B, or |R - G| < 50 and R > B; so a pixel with R > G
\* but R <= B scores 0.  (Checked under Spec on the rasters it loads.)
C18_ScoreNeedsRedOverBlue ==
    imageData # NoImage =>
        \A x \in 0..(imageData.width - 1), y \in 0..(imageData.height - 1) :
            LET p == PixelAt(imageData, x, y)
            IN  (/\ InInterior(x, y, imageData.width, imageData.height)
                 /\ rednessScores(imageData)[y][x] # Num(0))
                => /\ p.r + p.g + p.b < 3 * 220
                   /\ \/ p.r > p.g /\ p.r > p.b
                      \/ Abs(p.r - p.g) < 50 /\ p.r > p.b

(***************************************************************************)
(* SpecGap: white rasters of GapW x GapH with up to MaxInk red or pink     *)
(* pixels in the first and the last interior row, so that the rows in      *)
(* between have no center of their own and the second pass fills them.     *)
(***************************************************************************)
GapW == 18
GapH == 14

GapCells == (5..(GapW - 6)) \X {5, GapH - 6}

GapInkPlacements ==
    UNION {[cells -> {Red, Pink}] :
            cells \in {S \in SUBSET GapCells : Cardinality(S) <= MaxInk}}

LoadGap ==
    /\ pc = "pending"
    /\ \E ink \in GapInkPlacements : onload(MakeRaster(GapW, GapH, White, ink))
    /\ UNCHANGED fillVars

NextGap ==
    \/ LoadGap
    \/ onerror
    \/ processImage

SpecGap == InitRect /\ [][NextGap]_vars

\* The fill of row y from the centers of the per-row maximum step alone.
FillFromDefined(first, y, width, height) ==
    LET prevX == LookBackward(first, y)
        nextX == LookForward(first, y, height)
    IN  IF prevX # null /\ nextX # null THEN Round(prevX + nextX, 2)
        ELSE IF prevX # null THEN prevX
        ELSE IF nextX # null THEN nextX
        ELSE width \div 2

\* C19: an interior row whose per-row maximum was rejected gets the rounded
\* average of the nearest centers the per-row maximum step defined above and
\* below it within 10 rows, the one of them there is, or floor(W / 2) when
\* that step defined no center within 10 rows either way.
C19_FillFromFirstPassCenters ==
    (Resolved /\ HasInterior(imageData)) =>
        LET scores == Concrete2(rednessScores(imageData))
            first == Concrete(FirstPass(scores, imageData.width, imageData.height))
            filled == SecondPass(first, imageData.width, imageData.height)
        IN  \A y \in InteriorRows(imageData.height) :
                first[y] = null
                    => filled[y] = FillFromDefined(first, y, imageData.width,
                                                   imageData.height)

\* C20: the original statement: the fallback is taken exactly when fewer
\* than 10% of the interior rows (5..H-6) yielded an accepted pixel.
C20_FallbackByRowShare ==
    (Resolved /\ HasInterior(imageData)) =>
        LET coords == rowFollowing(revision, imageData)
            rows == {coords[i].y : i \in 1..Len(coords)}
            fewRows == 10 * Cardinality(rows)
                          < Cardinality(InteriorRows(imageData.height))
            top == topPixels(Concrete2(rednessScores(imageData)), imageData)
        IN  IF fewRows
            THEN lineData.coordinates =
                    [i \in 1..Len(top) |-> [x |-> top[i].x, y |-> top[i].y]]
            ELSE lineData.coordinates = coords

\* C20: the fallback is taken exactly when the number of accepted pixels is
\* below 10% of the raster height H; otherwise the row-following result is
\* returned unchanged.
C20_FallbackByPixelCount ==
    (Resolved /\ HasInterior(imageData)) =>
        LET coords == rowFollowing(revision, imageData)
            top == topPixels(Concrete2(rednessScores(imageData)), imageData)
        IN  IF 10 * Len(coords) < imageData.height
            THEN lineData.coordinates =
                    [i \in 1..Len(top) |-> [x |-> top[i].x, y |-> top[i].y]]
            ELSE lineData.coordinates = coords

\* Both ways happen: here the only interior row gave two pixels, 10% of the
\* height or more, and they are returned as the rows gave them.
C20_Witness ==
    /\ Resolved
    /\ imageData.height = 11
    /\ Len(rowFollowing(revision, imageData)) = 2
    /\ lineData.coordinates = rowFollowing(revision, imageData)
    /\ lineData.coordinates[1].x + 1 = lineData.coordinates[2].x

(***************************************************************************)
(* SpecFallback: the rasters of Spec and, besides, white rasters of        *)
(* BlockW columns (an interior of three) whose interior rows, up to        *)
(* MaxBlockRows of them, are all inked in the second and the third         *)
(* interior column, with up to MaxSpots interior pixels of another colour. *)
(* Every window of a row covers the three columns, so the first column is  *)
(* the center of every row; where it is white the row gives nothing, and   *)
(* the fallback finds up to three pixels of positive score a row.          *)
(***************************************************************************)
BlockW == 13
MaxBlockRows == 11
MaxSpots == 1

BlockCells(rows) == (edgeMargin..(edgeMargin + 2)) \X (edgeMargin..(edgeMargin + rows - 1))

\* The sets of at most k of the cells.
RECURSIVE UpTo(_, _)
UpTo(k, cells) ==
    IF k = 0 THEN {{}}
    ELSE LET fewer == UpTo(k - 1, cells)
         IN  fewer \cup {S \cup {c} : S \in fewer, c \in cells}

BlockSpots(rows) ==
    UNION {[cells -> {Red, Violet, White}] : cells \in UpTo(MaxSpots, BlockCells(rows))}

\* The block of rows rows with the colours first and second in its second
\* and third column, and the spots over it.
BlockInk(rows, first, second, spots) ==
    [c \in BlockCells(rows) |->
        IF c \in DOMAIN spots THEN spots[c]
        ELSE IF c[1] = edgeMargin + 1 THEN first
        ELSE IF c[1] = edgeMargin + 2 THEN second
        ELSE White]

LoadBlock ==
    /\ pc = "pending"
    /\ \E rows \in 1..MaxBlockRows, first \in {Pink, Red}, second \in {Pink, Violet} :
         \E spots \in BlockSpots(rows) :
            onload(MakeRaster(BlockW, rows + 2 * edgeMargin, White,
                              BlockInk(rows, first, second, spots)))
    /\ UNCHANGED fillVars

NextFallback ==
    \/ Load
    \/ LoadBlock
    \/ onerror
    \/ processImage

SpecFallback == Init /\ [][NextFallback]_vars

\* The redness score of the interior pixel at cell c = <<x, y>>.
ScoreOfCell(img, c) == rednessScore(PixelAt(img, c[1], c[2]))

\* Cell c comes before cell d in the order of the loops over y and x.
RowMajorBefore(c, d) == c[2] < d[2] \/ (c[2] = d[2] /\ c[1] < d[1])

\* C21: when the fallback runs on a raster with n interior pixels of positive
\* score, the selection is the first max(1, floor(0.15 n)) of them by
\* descending score (none when n = 0): each pixel once, in descending order,
\* no unselected positive pixel scoring higher than a selected one, and
\* nothing of the row-following pass besides.
C21_FallbackTakesTopOfPositive ==
    (Resolved /\ HasInterior(imageData) /\ FellBack) =>
        LET positive == PositiveCells(imageData)
            n == Cardinality(positive)
            count == IF n = 0 THEN 0 ELSE Max(1, (15 * n) \div 100)
            at == [i \in 1..Len(lineData.coordinates) |->
                     <<lineData.coordinates[i].x, lineData.coordinates[i].y>>]
            chosen == Range(at)
        IN  /\ Len(at) = count
            /\ Cardinality(chosen) = count
            /\ chosen \subseteq positive
            /\ \A i \in 1..Len(at) :
                 lineData.pixels[i] = PixelAt(imageData, at[i][1], at[i][2])
            /\ \A i, j \in 1..Len(at) :
                 i < j => \/ flLess(ScoreOfCell(imageData, at[j]), ScoreOfCell(imageData, at[i]))
                          \/ /\ ScoreOfCell(imageData, at[i]) = ScoreOfCell(imageData, at[j])
                             /\ RowMajorBefore(at[i], at[j])
            /\ \A c \in chosen, d \in positive \ chosen :
                 \/ flLess(ScoreOfCell(imageData, d), ScoreOfCell(imageData, c))
                 \/ /\ ScoreOfCell(imageData, c) = ScoreOfCell(imageData, d)
                    /\ RowMajorBefore(c, d)

\* Twenty-one positive pixels, of which floor(3.15) = 3 are returned: the
\* one red pixel, which the rows had accepted, and after it the first two
\* violet ones in the order of the rows, the other violet ones and the pink
\* ones being left out.
C21_Witness ==
    /\ Resolved
    /\ FellBack
    /\ Cardinality(PositiveCells(imageData)) = 21
    /\ Len(rowFollowing(revision, imageData)) = 1
    /\ lineData.pixels = <<Red, Violet, Violet>>
    /\ lineData.coordinates[1].y > lineData.coordinates[3].y
    /\ lineData.coordinates[2].y < lineData.coordinates[3].y
    /\ \E c \in PositiveCells(imageData) : PixelAt(imageData, c[1], c[2]) = Pink

\* C22: on the row-following path of the current revision every accepted
\* pixel of row y is at most 8 columns from the smoothed center of row y and
\* scores more than max(2, 0.25 * centerScore), centerScore being the score
\* at that center; a row whose center scores below 1 gives no pixel.
C22_AcceptedNearCenterAboveThreshold ==
    (Resolved /\ revision = "maxWidth" /\ HasInterior(imageData) /\ ~FellBack) =>
        LET scores == Concrete2(rednessScores(imageData))
            lc == Concrete(lineCenterX(scores, imageData.width, imageData.height))
        IN  \A i \in 1..Len(lineData.coordinates) :
                LET c == lineData.coordinates[i]
                    centerX == lc[c.y]
                    centerScore == ScoreAt(scores[c.y], imageData.width, centerX)
                    score == scores[c.y][c.x]
                IN  /\ centerX # null
                    /\ Abs(c.x - centerX) <= 8
                    /\ flLess(Num(2), score)
                    /\ flLess(flTimes(centerScore, Literal025), score)
                    /\ ~flLess(centerScore, Num(1))

\* A rectangle wider than the reach: a row gives a pixel 8 columns right of
\* its center and none further, and the rows outside of the rectangle, whose
\* centers score 0, give none.
C22_Witness ==
    /\ Resolved
    /\ ~FellBack
    /\ imageData.width = RectWide
    /\ LET scores == Concrete2(rednessScores(imageData))
           lc == Concrete(lineCenterX(scores, imageData.width, imageData.height))
       IN  /\ \E i \in 1..Len(lineData.coordinates) :
                lineData.coordinates[i].x - lc[lineData.coordinates[i].y] = 8
           /\ \E y \in InteriorRows(imageData.height) :
                /\ ScoreAt(scores[y], imageData.width, lc[y]) = Num(0)
                /\ \A i \in 1..Len(lineData.coordinates) :
                      lineData.coordinates[i].y # y
           /\ \E c \in RedCells(imageData) :
                \A i \in 1..Len(lineData.coordinates) :
                    <<lineData.coordinates[i].x, lineData.coordinates[i].y>> # c

\* The element at the p-th percentile of the sorted grays: index floor(p n / 100).
PercentileOf(grays, p) == sortedAt(grays, (p * Len(grays)) \div 100)

\* C23: the original statement: Strategy A's threshold is the 15th
\* percentile of the sorted luminance values, and the 5th percentile when
\* the 15th exceeds 180.
C23_ThresholdIsPercentile ==
    (pc = "resolved" /\ Len(imageData.data) > 0) =>
        LET grays == allGrays(imageData)
            p15 == PercentileOf(grays, 15)
            cut == IF flLess(Num(180), p15) THEN PercentileOf(grays, 5) ELSE p15
        IN  threshold(median(grays)) = cut

(***************************************************************************)
(* SpecComponents: Strategy A on every raster of black and white pixels up *)
(* to MaxSide wide and three high, so that the dark pixels form every      *)
(* pattern of components there is.                                         *)
(***************************************************************************)
PatternHeights == {1, 2, 3}

PatternRasters(width, height) ==
    {[width |-> width, height |-> height, data |-> data] :
        data \in [1..(width * height) -> {Black, White}]}

InitComponents ==
    /\ pc = "pending"
    /\ revision = "floodFill"
    /\ \E width \in 1..MaxSide, height \in PatternHeights :
         imageData \in PatternRasters(width, height)
    /\ lineData = << >>
    /\ avgRGB = NoRGB
    /\ original = NoImage
    /\ roi = NoROI
    /\ AppInit
    /\ CanvasInit
    /\ FillInit

SpecComponents == InitComponents /\ [][NextFloodFill]_vars

\* The cells at or below the threshold.
DarkCells(img) ==
    LET t == threshold(median(allGrays(img)))
    IN  {c \in (0..(img.width - 1)) \X (0..(img.height - 1)) :
            belowThreshold(gray(PixelAt(img, c[1], c[2])), t)}

\* The 4-connected component of S within dark: S grown until nothing is added.
RECURSIVE Grow(_, _)
Grow(S, dark) ==
    LET T == S \cup {d \in dark :
                       \E c \in S : Abs(c[1] - d[1]) + Abs(c[2] - d[2]) = 1}
    IN  IF T = S THEN S ELSE Grow(T, dark)

\* The place of a cell in the row-major scan, and the first cell of a set.
ScanIndex(c, img) == c[2] * img.width + c[1]
FirstScanned(S, img) == MinOf({ScanIndex(c, img) : c \in S})

\* C24: when a pixel is at or below the threshold, Strategy A returns the
\* pixels of one maximal 4-connected component of such pixels, each once;
\* no component has more pixels, a component of the same size is met later
\* in the row-major scan, and nothing else is returned.
C24_LargestComponentReturned ==
    (pc = "resolved" /\ DarkCells(imageData) # {}) =>
        LET dark == DarkCells(imageData)
            region == largestRegionOf(imageData, allGrays(imageData),
                                      threshold(median(allGrays(imageData))))
            cells == Range(region)
        IN  /\ lineData = [i \in 1..Len(region) |->
                             PixelAt(imageData, region[i][1], region[i][2])]
            /\ Len(lineData) = Cardinality(cells)
            /\ cells # {}
            /\ cells \subseteq dark
            /\ \A c \in cells : Grow({c}, dark) = cells
            /\ \A d \in dark \ cells :
                 LET other == Grow({d}, dark)
                 IN  \/ Cardinality(other) < Cardinality(cells)
                     \/ /\ Cardinality(other) = Cardinality(cells)
                        /\ FirstScanned(cells, imageData) < FirstScanned(other, imageData)

\* A raster of 3 x 3 whose dark pixels make a component of one pixel, met
\* first, and one of three: the three are returned.
C24_Witness ==
    /\ pc = "resolved"
    /\ imageData.width = 3 /\ imageData.height = 3
    /\ PixelAt(imageData, 0, 0) = Black
    /\ Grow({<<0, 0>>}, DarkCells(imageData)) = {<<0, 0>>}
    /\ Cardinality(DarkCells(imageData)) = 4
    /\ lineData = <<Black, Black, Black>>

\* C25: every run handleStart starts sets processing back to false, also
\* when processImage rejects for an image that fails to load: whenever no
\* run is under way (none started, or the last one has ended, by its last
\* statement or by the rejection), the flag is false.
C25_ProcessingFalseAfterRun ==
    pc \in {"idle", "failed"} => ~processing

(***************************************************************************)
(* SpecFill: Strategy A's component scan taken one step at a time, each    *)
(* turn of the loops over y and x and each turn of floodFill's while loop  *)
(* being a step, on the black-and-white rasters of up to MaxSide pixels    *)
(* by FillHeights with the threshold of step 2; and floodFill alone,       *)
(* called on such a raster with a start pixel in the raster or one pixel   *)
(* outside it and a threshold of FillThresholds.                           *)
(***************************************************************************)
FillHeights == {1, 2}

\* Thresholds of a call: not a number, below every gray, between the grays
\* of black and of white, and the gray of white.
FillThresholds == {NaN, Num(0 - 1), Num(0), Num(255)}

\* The start pixels of a call: the raster and the ring around it.
FillStarts(width, height) == ((0 - 1)..width) \X ((0 - 1)..height)

\* The bounds check with its test of y left out.
inBoundsOfRow(x, y, width, height) == ~(x < 0 \/ x >= width)

\* if (x < 0 || x >= width || y < 0 || y >= height) continue
inBounds(x, y, width, height) == ~(x < 0 \/ x >= width \/ y < 0 \/ y >= height)

InitFill ==
    /\ revision = "floodFill"
    /\ \E width \in 1..MaxSide, height \in FillHeights :
         imageData \in PatternRasters(width, height)
    /\ lineData = << >>
    /\ avgRGB = NoRGB
    /\ original = NoImage
    /\ roi = NoROI
    /\ AppInit
    /\ CanvasInit
    /\ visitedNow = {}
    /\ regionNow = << >>
    /\ largestNow = << >>
    /\ readAt = << >>
    /\ grayscaleData = [y \in 0..(imageData.height - 1) |->
                          [x \in 0..(imageData.width - 1) |-> gray(PixelAt(imageData, x, y))]]
    /\ \/ /\ pc = "scanning"
          /\ scanAt = 1
          /\ stackNow = << >>
          /\ thresholdNow = threshold(median(allGrays(imageData)))
       \/ /\ pc = "called"
          /\ scanAt = 0
          /\ \E start \in FillStarts(imageData.width, imageData.height) :
               stackNow = <<start>>
          /\ thresholdNow \in FillThresholds

fillUnchanged ==
    UNCHANGED <<imageData, revision, original, roi, appVars, canvasVars, grayscaleData,
                thresholdNow>>

\* One turn of the loops over y and x: a flood fill is started at a pixel
\* not yet visited that is at or below the threshold, with a new region;
\* any other pixel is passed.
scanNext ==
    /\ pc = "scanning"
    /\ scanAt <= imageData.width * imageData.height
    /\ LET x == (scanAt - 1) % imageData.width
           y == (scanAt - 1) \div imageData.width
       IN  /\ readAt' = <<x, y>>
           /\ IF <<x, y>> \notin visitedNow
                 /\ belowThreshold(grayscaleData[y][x], thresholdNow)
              THEN /\ pc' = "filling"
                   /\ stackNow' = << <<x, y>> >>
                   /\ regionNow' = << >>
                   /\ UNCHANGED scanAt
              ELSE /\ scanAt' = scanAt + 1
                   /\ UNCHANGED <<pc, stackNow, regionNow>>
    /\ UNCHANGED <<visitedNow, largestNow, lineData, avgRGB>>
    /\ fillUnchanged

\* One turn of floodFill's while loop, in a fill of the scan or in a call.
\* A row outside the grids is undefined and reading a cell of it throws,
\* which ends the run.
floodFillPop ==
    /\ pc \in {"filling", "called"}
    /\ stackNow # << >>
    /\ LET top == stackNow[Len(stackNow)]
           rest == SubSeq(stackNow, 1, Len(stackNow) - 1)
           x == top[1]
           y == top[2]
       IN  IF ~inBounds(x, y, imageData.width, imageData.height)
           THEN /\ stackNow' = rest
                /\ readAt' = << >>
                /\ UNCHANGED <<pc, visitedNow, regionNow>>
           ELSE /\ readAt' = top
                /\ IF y \notin DOMAIN grayscaleData
                   THEN /\ pc' = "thrown"
                        /\ stackNow' = rest
                        /\ UNCHANGED <<visitedNow, regionNow>>
                   ELSE /\ UNCHANGED pc
                        /\ IF \/ top \in visitedNow
                              \/ aboveThreshold(grayscaleData[y][x], thresholdNow)
                           THEN /\ stackNow' = rest
                                /\ UNCHANGED <<visitedNow, regionNow>>
                           ELSE /\ visitedNow' = visitedNow \cup {top}
                                /\ regionNow' = Append(regionNow, top)
                                /\ stackNow' = rest \o neighbours(x, y)
    /\ UNCHANGED <<scanAt, largestNow, lineData, avgRGB>>
    /\ fillUnchanged

\* floodFill returns to the scan and the region is kept when it is the
\* largest so far.
floodFillReturn ==
    /\ pc = "filling"
    /\ stackNow = << >>
    /\ largestNow' = IF Len(regionNow) > Len(largestNow)
                     THEN regionNow ELSE largestNow
    /\ scanAt' = scanAt + 1
    /\ pc' = "scanning"
    /\ readAt' = << >>
    /\ UNCHANGED <<stackNow, visitedNow, regionNow, lineData, avgRGB>>
    /\ fillUnchanged

\* floodFill called alone returns: the while loop found the stack empty.
floodFillReturnToCaller ==
    /\ pc = "called"
    /\ stackNow = << >>
    /\ pc' = "returned"
    /\ readAt' = << >>
    /\ UNCHANGED <<scanAt, stackNow, visitedNow, regionNow, largestNow, lineData, avgRGB>>
    /\ fillUnchanged

\* The loops are over: the pixels of the largest region, or the darkest
\* 20% when there is none, and their average.
scanEnd ==
    /\ pc = "scanning"
    /\ scanAt > imageData.width * imageData.height
    /\ lineData' = IF Len(largestNow) = 0
                   THEN darkestPixels(imageData,
                            [i \in 1..(imageData.width * imageData.height) |->
                               grayscaleData[(i - 1) \div imageData.width]
                                            [(i - 1) % imageData.width]])
                   ELSE [i \in 1..Len(largestNow) |->
                           PixelAt(imageData, largestNow[i][1], largestNow[i][2])]
    /\ avgRGB' = calculateAverageRGBOfPixels(lineData')
    /\ pc' = "resolved"
    /\ readAt' = << >>
    /\ UNCHANGED <<scanAt, stackNow, visitedNow, regionNow, largestNow>>
    /\ fillUnchanged

NextFill ==
    \/ scanNext
    \/ floodFillPop
    \/ floodFillReturn
    \/ floodFillReturnToCaller
    \/ scanEnd

SpecFill == InitFill /\ [][NextFill]_vars

\* The loops run on: a step that can be taken is taken.
SpecFillFair == SpecFill /\ WF_vars(NextFill)

\* The scan one step at a time ends with what the detector returns.
StepwiseAgrees ==
    pc = "resolved" => lineData = detectLineAndExtractPixelsFloodFill(imageData)

\* A call one step at a time ends with what floodFill returns for the
\* start pixel and the threshold of the call.
CallAgrees ==
    pc = "returned" =>
        \E start \in FillStarts(imageData.width, imageData.height) :
            LET filled == floodFill(<<start>>, imageData.width, imageData.height,
                                    allGrays(imageData), thresholdNow, {}, << >>)
            IN  filled.visited = visitedNow /\ filled.region = regionNow

\* C27: every floodFill, called with any start pixel and any threshold or
\* started by the component scan, empties its stack and returns, and the
\* scan ends; no pixel is twice in a region, a pixel entering a region only
\* while it is not marked visited and being marked by that step, and marks
\* are never taken back; and the grayscale and visited grids are read only
\* at a row and a column they have.
C27_FloodFillTerminates ==
    /\ <>(pc \in {"resolved", "returned"} /\ stackNow = << >>)
    /\ [][/\ visitedNow \subseteq visitedNow'
          /\ (regionNow' # regionNow /\ regionNow' # << >>)
               => \E t \in visitedNow' \ visitedNow :
                     regionNow' = Append(regionNow, t)]_vars
    /\ [](\A i, j \in 1..Len(regionNow) : regionNow[i] = regionNow[j] => i = j)
    /\ [](readAt # << >>
            => /\ readAt[2] \in DOMAIN grayscaleData
               /\ readAt[1] \in DOMAIN grayscaleData[readAt[2]])

\* A call that returned for the threshold NaN and a raster of 3 x 2 with a
\* white pixel: no pixel was skipped, the six are in the region once each.
C27_Witness ==
    /\ pc = "returned"
    /\ thresholdNow = NaN
    /\ imageData.width = 3 /\ imageData.height = 2
    /\ White \in Range(imageData.data)
    /\ Len(regionNow) = 6
    /\ Cardinality(visitedNow) = 6
    /\ stackNow = << >>

====
